---------------------------- MODULE Spec2Model ----------------------------
(***************************************************************************)
(* Model of ticktick-mcp: timezone resolution, datetime normalization and  *)
(* validation (ticktick_mcp/src/server.py and timezone_utils.py) and the   *)
(* tool handlers that use them.                                            *)
(*                                                                         *)
(* Python strings are modelled as sequences of one-character strings, so   *)
(* that the regular expressions, datetime.fromisoformat and strftime are   *)
(* computed character by character.  Python's None is the value None.      *)
(***************************************************************************)
EXTENDS Integers, Sequences, FiniteSets, TLC

VARIABLES
    envTz,          \* os.environ TICKTICK_USER_TIMEZONE (Unset when absent)
    probes,         \* what each system probe of server.get_user_timezone finds
    sysOffset,      \* the system's UTC offset, in minutes (local clock - UTC clock)
    elapsed,        \* milliseconds between datetime.now() and datetime.utcnow()
    zoneinfoOK,     \* whether ZoneInfo(name) can load zones (tz database present)
    py,             \* the interpreter's datetime.fromisoformat: "legacy" (3.7-3.10) or "py311"
    nowMonth,       \* the month of the wall clock at call time
    loaded,         \* server module imported (USER_TIMEZONE computed)
    USER_TIMEZONE,  \* server.USER_TIMEZONE
    resolved,       \* history: the zone timezone_utils.get_user_timezone returned first
    token,          \* TICKTICK_ACCESS_TOKEN is available (environment or .env file)
    ticktick,       \* server.ticktick: "None" or "Client"
    calls,          \* the remote client's methods called by the last invocation, in order
    op,             \* name of the last operation applied
    arg,            \* its argument
    ret             \* its result

vars == <<envTz, probes, sysOffset, elapsed, zoneinfoOK, py, nowMonth,
          loaded, USER_TIMEZONE, resolved, token, ticktick, calls, op, arg, ret>>

toolVars == <<token, ticktick, calls>>

envVars == <<envTz, probes, sysOffset, elapsed, zoneinfoOK, py, nowMonth>>

-----------------------------------------------------------------------------
(* Bounds of the model *)

\* Years of the dates drawn as inputs: (MaxYear - 1) .. MaxYear
MaxYear == 2025

-----------------------------------------------------------------------------
(* Characters and strings *)

None == <<"<None>">>

Digits == <<"0", "1", "2", "3", "4", "5", "6", "7", "8", "9">>

DigitOf == [c \in {Digits[i] : i \in 1..10} |-> (CHOOSE i \in 1..10 : Digits[i] = c) - 1]

IsDigit(c) == c \in DOMAIN DigitOf

DigitVal(c) == DigitOf[c]

AllDigits(s) == \A i \in 1..Len(s) : IsDigit(s[i])

RECURSIVE Num(_)
Num(s) == IF s = <<>> THEN 0
          ELSE 10 * Num(SubSeq(s, 1, Len(s) - 1)) + DigitVal(s[Len(s)])

Fmt2(n) == <<Digits[(n \div 10) + 1], Digits[(n % 10) + 1]>>

Fmt4(n) == Fmt2(n \div 100) \o Fmt2(n % 100)

Contains(s, c) == \E i \in 1..Len(s) : s[i] = c

Tail2(s, k) == SubSeq(s, Len(s) - k + 1, Len(s))

FirstIndex(s, C) ==
    IF \E i \in 1..Len(s) : s[i] \in C
    THEN CHOOSE i \in 1..Len(s) : s[i] \in C /\ \A j \in 1..(i - 1) : s[j] \notin C
    ELSE 0

-----------------------------------------------------------------------------
(* The calendar, as the datetime constructor validates it *)

IsLeap(y) == (y % 4 = 0 /\ y % 100 # 0) \/ y % 400 = 0

DaysInMonth(y, m) ==
    IF m = 2 THEN (IF IsLeap(y) THEN 29 ELSE 28)
    ELSE IF m \in {4, 6, 9, 11} THEN 30 ELSE 31

ValidDate(y, m, d) ==
    /\ y \in 1..9999
    /\ m \in 1..12
    /\ d \in 1..DaysInMonth(y, m)

-----------------------------------------------------------------------------
(* datetime.fromisoformat, for strings whose date part is in the extended  *)
(* form YYYY-MM-DD (every other date part drawn here is rejected by every  *)
(* interpreter).  "legacy" is the parser of Python 3.7 to 3.10, "py311"    *)
(* the one of Python 3.11 and later, which also reads basic-format fields, *)
(* a bare hour offset and a trailing Z.                                    *)

BadParse == [ok |-> FALSE, y |-> 0, m |-> 0, d |-> 0, hh |-> 0, mi |-> 0, ss |-> 0,
             aware |-> FALSE, off |-> 0]

BadHMS == [ok |-> FALSE, h |-> 0, m |-> 0, s |-> 0]

HMS(h, m, s) == [ok |-> TRUE, h |-> h, m |-> m, s |-> s]

TwoDigits(t, i) == i + 1 <= Len(t) /\ IsDigit(t[i]) /\ IsDigit(t[i + 1])

\* the fraction of a second: 3 or 6 digits, with py311 any number of them
FractionOK(t, ver) ==
    /\ Len(t) >= 10
    /\ t[9] = "."
    /\ AllDigits(SubSeq(t, 10, Len(t)))
    /\ (ver = "legacy" => Len(t) \in {12, 15})

\* _parse_hh_mm_ss_ff: HH[:MM[:SS[.fff[fff]]]], and with py311 also HHMM[SS]
ParseHMS(t, ver) ==
    IF Len(t) = 2 /\ TwoDigits(t, 1)
      THEN HMS(Num(t), 0, 0)
    ELSE IF Len(t) = 5 /\ TwoDigits(t, 1) /\ t[3] = ":" /\ TwoDigits(t, 4)
      THEN HMS(Num(SubSeq(t, 1, 2)), Num(SubSeq(t, 4, 5)), 0)
    ELSE IF Len(t) >= 8 /\ TwoDigits(t, 1) /\ t[3] = ":" /\ TwoDigits(t, 4) /\ t[6] = ":"
            /\ TwoDigits(t, 7) /\ (Len(t) = 8 \/ FractionOK(t, ver))
      THEN HMS(Num(SubSeq(t, 1, 2)), Num(SubSeq(t, 4, 5)), Num(SubSeq(t, 7, 8)))
    ELSE IF ver = "py311" /\ Len(t) = 4 /\ AllDigits(t)
      THEN HMS(Num(SubSeq(t, 1, 2)), Num(SubSeq(t, 3, 4)), 0)
    ELSE IF ver = "py311" /\ Len(t) = 6 /\ AllDigits(t)
      THEN HMS(Num(SubSeq(t, 1, 2)), Num(SubSeq(t, 3, 4)), Num(SubSeq(t, 5, 6)))
    ELSE BadHMS

BadTime == [ok |-> FALSE, h |-> 0, m |-> 0, s |-> 0, aware |-> FALSE, off |-> 0]

\* the time of day tm and the UTC offset tz after the mark (a sign, or Z), as
\* the datetime constructor and timedelta accept them
MakeTime(tm, mark, tzstr, tz, ver) ==
    IF ~(tm.ok /\ tm.h \in 0..23 /\ tm.m \in 0..59 /\ tm.s \in 0..59) THEN BadTime
    ELSE IF mark = "" THEN [ok |-> TRUE, h |-> tm.h, m |-> tm.m, s |-> tm.s,
                            aware |-> FALSE, off |-> 0]
    ELSE IF mark = "Z"
      THEN IF tzstr = <<>> THEN [ok |-> TRUE, h |-> tm.h, m |-> tm.m, s |-> tm.s,
                                 aware |-> TRUE, off |-> 0]
           ELSE BadTime
    ELSE IF /\ tz.ok
            /\ (ver = "legacy" => Len(tzstr) \in {5, 8, 15})
            /\ tz.h * 3600 + tz.m * 60 + tz.s < 86400
      THEN [ok |-> TRUE, h |-> tm.h, m |-> tm.m, s |-> tm.s, aware |-> TRUE,
            off |-> (IF mark = "-" THEN -1 ELSE 1) * (tz.h * 60 + tz.m)]
    ELSE BadTime

SplitTime(t, zpos, ver) ==
    IF zpos = 0 THEN MakeTime(ParseHMS(t, ver), "", <<>>, BadHMS, ver)
    ELSE MakeTime(ParseHMS(SubSeq(t, 1, zpos - 1), ver), t[zpos],
                  SubSeq(t, zpos + 1, Len(t)),
                  ParseHMS(SubSeq(t, zpos + 1, Len(t)), ver), ver)

\* _parse_isoformat_time: the time of day, then the UTC offset after the first sign
ParseTime(t, ver) ==
    SplitTime(t, FirstIndex(t, IF ver = "py311" THEN {"+", "-", "Z"} ELSE {"+", "-"}), ver)

MakeDateTime(y, m, d, tm) ==
    IF ~ValidDate(y, m, d) \/ ~tm.ok THEN BadParse
    ELSE [ok |-> TRUE, y |-> y, m |-> m, d |-> d, hh |-> tm.h, mi |-> tm.m,
          ss |-> tm.s, aware |-> tm.aware, off |-> tm.off]

MidnightTime == [ok |-> TRUE, h |-> 0, m |-> 0, s |-> 0, aware |-> FALSE, off |-> 0]

DateShape(s) ==
    /\ Len(s) >= 10
    /\ AllDigits(SubSeq(s, 1, 4)) /\ s[5] = "-"
    /\ AllDigits(SubSeq(s, 6, 7)) /\ s[8] = "-"
    /\ AllDigits(SubSeq(s, 9, 10))

fromisoformat(s, ver) ==
    IF ~DateShape(s) \/ Len(s) = 11 THEN BadParse
    ELSE MakeDateTime(Num(SubSeq(s, 1, 4)), Num(SubSeq(s, 6, 7)), Num(SubSeq(s, 9, 10)),
                      IF Len(s) = 10 THEN MidnightTime
                      ELSE ParseTime(SubSeq(s, 12, Len(s)), ver))

-----------------------------------------------------------------------------
(* Timezones.  A tzinfo value is either a ZoneInfo (kind "zone", a name of *)
(* the tz database) or a datetime.timezone of fixed offset (kind "fixed"). *)

\* timezone_utils.get_timezone_safe: the fallback table, in minutes
timezone_offsets ==
    [n \in {"UTC", "Europe/London"} |-> 0] @@
    [n \in {"America/New_York", "America/Toronto"} |-> -300] @@
    [n \in {"America/Chicago", "America/Mexico_City"} |-> -360] @@
    [n \in {"America/Denver"} |-> -420] @@
    [n \in {"America/Los_Angeles", "America/Vancouver"} |-> -480] @@
    [n \in {"America/Sao_Paulo", "America/Argentina/Buenos_Aires"} |-> -180] @@
    [n \in {"Europe/Berlin", "Europe/Paris", "Europe/Rome", "Europe/Amsterdam",
            "Europe/Madrid", "Europe/Stockholm", "Africa/Lagos"} |-> 60] @@
    [n \in {"Europe/Kiev", "Africa/Cairo", "Africa/Johannesburg"} |-> 120] @@
    [n \in {"Europe/Moscow", "Asia/Riyadh", "Africa/Nairobi"} |-> 180] @@
    [n \in {"Asia/Dubai"} |-> 240] @@
    [n \in {"Asia/Kolkata", "Asia/Mumbai"} |-> 330] @@
    [n \in {"Asia/Bangkok", "Asia/Jakarta", "Asia/Ho_Chi_Minh"} |-> 420] @@
    [n \in {"Asia/Shanghai", "Asia/Hong_Kong", "Asia/Singapore", "Asia/Manila",
            "Asia/Taipei", "Asia/Kuala_Lumpur", "Australia/Perth"} |-> 480] @@
    [n \in {"Asia/Tokyo", "Asia/Seoul"} |-> 540] @@
    [n \in {"Australia/Sydney", "Australia/Melbourne"} |-> 600] @@
    [n \in {"Pacific/Auckland"} |-> 720]

\* The tz database ZoneInfo reads: the zones it knows ("Asia/Mumbai" is not one)
ZoneDB == (DOMAIN timezone_offsets) \ {"Asia/Mumbai"}

NorthDst == {"America/New_York", "America/Toronto", "America/Chicago", "America/Denver",
             "America/Los_Angeles", "America/Vancouver", "Europe/London", "Europe/Berlin",
             "Europe/Paris", "Europe/Rome", "Europe/Amsterdam", "Europe/Madrid",
             "Europe/Stockholm", "Europe/Kiev"}

SouthDst == {"Australia/Sydney", "Australia/Melbourne", "Pacific/Auckland"}

Zone(name) == [kind |-> "zone", name |-> name, fixed |-> 0]

FixedTz(minutes) == [kind |-> "fixed", name |-> "", fixed |-> minutes]

\* tzinfo.utcoffset for a wall-clock date in month `month`, in minutes
utcoffset(tz, month) ==
    IF tz.kind = "fixed" THEN tz.fixed
    ELSE timezone_offsets[tz.name]
         + (IF tz.name \in NorthDst /\ month \in 4..10 THEN 60
            ELSE IF tz.name \in SouthDst /\ month \in {11, 12, 1, 2, 3} THEN 60
            ELSE 0)

\* strftime('%z'): sign, hours and minutes without a colon
strftime_z(off) ==
    LET a == IF off < 0 THEN -off ELSE off
    IN  <<IF off < 0 THEN "-" ELSE "+">> \o Fmt2(a \div 60) \o Fmt2(a % 60)

-----------------------------------------------------------------------------
(* server.normalize_datetime_for_user *)

\* re.search(r'([+-]\d{2}:?\d{2}|Z)$', s)
OffsetAt(s, i, n) ==
    /\ i >= 1 /\ i + n - 1 <= Len(s)
    /\ s[i] \in {"+", "-"}
    /\ IsDigit(s[i + 1]) /\ IsDigit(s[i + 2])
    /\ IF n = 6 THEN s[i + 3] = ":" /\ IsDigit(s[i + 4]) /\ IsDigit(s[i + 5])
       ELSE IsDigit(s[i + 3]) /\ IsDigit(s[i + 4])

\* the same pattern with a mandatory colon, [+-]\d{2}:\d{2}|Z
server_has_tz_colon(s) ==
    \/ Len(s) >= 1 /\ s[Len(s)] = "Z"
    \/ OffsetAt(s, Len(s) - 5, 6)

server_has_tz(s) ==
    \/ Len(s) >= 1 /\ s[Len(s)] = "Z"
    \/ OffsetAt(s, Len(s) - 5, 6)
    \/ OffsetAt(s, Len(s) - 4, 5)

Midnight == <<"T", "0", "0", ":", "0", "0", ":", "0", "0">>

DateTime(y, m, d, mins, ss) ==
    [y |-> y, m |-> m, d |-> d, hh |-> mins \div 60, mi |-> mins % 60, ss |-> ss]

\* the date-time p moved by `mins` minutes from its midnight, across at most one day
ShiftDay(p, mins) ==
    IF mins < 0
      THEN IF p.d > 1 THEN DateTime(p.y, p.m, p.d - 1, mins + 1440, p.ss)
           ELSE IF p.m > 1
             THEN DateTime(p.y, p.m - 1, DaysInMonth(p.y, p.m - 1), mins + 1440, p.ss)
           ELSE DateTime(p.y - 1, 12, 31, mins + 1440, p.ss)
    ELSE IF mins >= 1440
      THEN IF p.d < DaysInMonth(p.y, p.m) THEN DateTime(p.y, p.m, p.d + 1, mins - 1440, p.ss)
           ELSE IF p.m < 12 THEN DateTime(p.y, p.m + 1, 1, mins - 1440, p.ss)
           ELSE DateTime(p.y + 1, 1, 1, mins - 1440, p.ss)
    ELSE DateTime(p.y, p.m, p.d, mins, p.ss)

\* dt_naive.replace(tzinfo=tz).astimezone(UTC): the UTC wall clock of local
\* date-time p, the zone's offset being the one it has at p
ToUTC(p, tz) == ShiftDay(p, p.hh * 60 + p.mi - utcoffset(tz, p.m))

\* strftime('%Y-%m-%dT%H:%M:%S.000Z'), for years of four digits
strftime_utc(u) ==
    Fmt4(u.y) \o <<"-">> \o Fmt2(u.m) \o <<"-">> \o Fmt2(u.d) \o <<"T">>
    \o Fmt2(u.hh) \o <<":">> \o Fmt2(u.mi) \o <<":">> \o Fmt2(u.ss)
    \o <<".", "0", "0", "0", "Z">>

\* the text fromisoformat is given: the input, with midnight added to a date
with_time(s) == IF Contains(s, "T") THEN s ELSE s \o Midnight

\* the try block (p is the parsed input, u its UTC date-time) and its except
\* clause, which stamps the zone's current offset on the input
server_convert(s, p, u, user_offset) ==
    IF p.ok /\ u.y \in 1..9999 THEN strftime_utc(u)
    ELSE with_time(s) \o user_offset

server_stamp(s, p, tz, month) ==
    server_convert(s, p, ToUTC(p, tz), strftime_z(utcoffset(tz, month)))

server_normalize(s, tz, month, ver) ==
    IF s = None \/ s = <<>> THEN s
    ELSE IF ~server_has_tz(s) THEN server_stamp(s, fromisoformat(with_time(s), ver), tz, month)
    ELSE s

-----------------------------------------------------------------------------
(* server.validate_datetime_string and timezone_utils.validate_datetime_string *)

RECURSIVE replace_Z(_)
replace_Z(s) ==
    IF s = <<>> THEN <<>>
    ELSE (IF s[1] = "Z" THEN <<"+", "0", "0", ":", "0", "0">> ELSE <<s[1]>>)
         \o replace_Z(SubSeq(s, 2, Len(s)))

\* f"Invalid {field_name} format. Use ISO format: ..."
InvalidFormat(field_name) == <<"Invalid ", field_name, " format">>

validate_datetime_string(s, field_name, ver) ==
    IF s = None \/ s = <<>> THEN None
    ELSE IF fromisoformat(replace_Z(s), ver).ok THEN None
    ELSE InvalidFormat(field_name)

tzutils_validate_datetime_string(s, field_name, ver) ==
    IF s = None \/ s = <<>> THEN None
    ELSE IF fromisoformat(replace_Z(s), ver).ok THEN None
    ELSE InvalidFormat(field_name)

-----------------------------------------------------------------------------
(* server.get_user_timezone *)

Unset == "<unset>"

\* What a probe can find besides a zone name
ProbeCaught == "!caught"   \* an exception its own try block catches
ProbeOther == "!other"     \* any other exception
ProbeEmpty == "!empty"     \* no exception and no name

\* ZoneInfo(name) returns a zone (it raises for every other name)
ZoneInfoLoads(name, dbOK) == dbOK /\ name \in ZoneDB

tz_mapping ==
    [a \in {"PST", "PDT"} |-> "America/Los_Angeles"] @@
    [a \in {"EST", "EDT"} |-> "America/New_York"] @@
    [a \in {"CST", "CDT"} |-> "America/Chicago"] @@
    [a \in {"MST", "MDT"} |-> "America/Denver"] @@
    [a \in {"UTC", "GMT"} |-> "UTC"]

IsName(x) == x \notin {ProbeCaught, ProbeOther, ProbeEmpty}

\* The outcome of a block of code: it returns a zone (`via` records the step
\* that produced it), it raises, or it ends without returning.
Returns(tz, via) == [k |-> "ret", tz |-> tz, via |-> via]

Raises == [k |-> "exc", tz |-> Zone("UTC"), via |-> "exception"]

Passes == [k |-> "pass", tz |-> Zone("UTC"), via |-> "none"]

\* ZoneInfo(name) as the last statement of a block
ReturnZoneInfo(name, dbOK, via) ==
    IF ZoneInfoLoads(name, dbOK) THEN Returns(Zone(name), via) ELSE Raises

\* Method 1: timedatectl; except (TimeoutExpired, FileNotFoundError, SubprocessError)
server_probe1(pr, dbOK) ==
    IF pr.p1 = ProbeCaught \/ pr.p1 = ProbeEmpty THEN Passes
    ELSE IF pr.p1 = ProbeOther THEN Raises
    ELSE ReturnZoneInfo(pr.p1, dbOK, "probe1")

\* Method 2: /etc/timezone; except (FileNotFoundError, PermissionError)
server_probe2(pr, dbOK) ==
    IF pr.p2 = ProbeCaught \/ pr.p2 = ProbeEmpty THEN Passes
    ELSE IF pr.p2 = ProbeOther THEN Raises
    ELSE ReturnZoneInfo(pr.p2, dbOK, "probe2")

\* except Exception: pass
Swallow(r) == IF r = Raises THEN Passes ELSE r

\* Method 3: /etc/localtime; except Exception
server_probe3(pr, dbOK) ==
    IF ~IsName(pr.p3) THEN Passes
    ELSE Swallow(ReturnZoneInfo(pr.p3, dbOK, "probe3"))

\* Method 4: time.tzname through tz_mapping; except Exception
server_probe4(pr, dbOK) ==
    IF pr.p4 \notin DOMAIN tz_mapping THEN Passes
    ELSE Swallow(ReturnZoneInfo(tz_mapping[pr.p4], dbOK, "probe4"))

\* statement a, then the statements b unless a returned or raised
Then(a, b) == IF a # Passes THEN a ELSE b

\* The statements of the enclosing try block, in order
server_detection(pr, dbOK) ==
    Then(server_probe1(pr, dbOK),
         Then(server_probe2(pr, dbOK),
              Then(server_probe3(pr, dbOK), server_probe4(pr, dbOK))))

\* the block without its handler
server_detection_unguarded(pr, dbOK) == server_detection(pr, dbOK)

\* try: ... except Exception as e: logger.warning(...)
server_detection_guarded(pr, dbOK) == Swallow(server_detection(pr, dbOK))

\* 1. the environment variable (an invalid name is logged and passed over)
server_env_step(env, dbOK) ==
    IF env = Unset \/ env = "" THEN Passes
    ELSE Swallow(ReturnZoneInfo(env, dbOK, "env"))

server_get_user_timezone(env, pr, dbOK) ==
    Then(server_env_step(env, dbOK),
         Then(server_detection_guarded(pr, dbOK), ReturnZoneInfo("UTC", dbOK, "fallback")))

-----------------------------------------------------------------------------
(* timezone_utils: get_timezone_safe, detect_system_timezone,             *)
(* get_user_timezone, normalize_datetime_for_user                          *)

get_timezone_safe(tz_name, dbOK) ==
    IF ZoneInfoLoads(tz_name, dbOK) THEN Zone(tz_name)
    ELSE IF tz_name \in DOMAIN timezone_offsets
      THEN FixedTz(timezone_offsets[tz_name])
    ELSE FixedTz(0)

\* the offsets of the table, in minutes
offset_to_timezone ==
    (0 :> "UTC") @@ (60 :> "Europe/Berlin") @@ (-300 :> "America/New_York") @@
    (-480 :> "America/Los_Angeles") @@ (480 :> "Asia/Shanghai") @@ (540 :> "Asia/Tokyo") @@
    (420 :> "Asia/Bangkok") @@ (330 :> "Asia/Kolkata") @@ (-180 :> "America/Sao_Paulo") @@
    (120 :> "Europe/Kiev") @@ (180 :> "Europe/Moscow")

\* clock readings are modelled in milliseconds
MillisPerMinute == 60000

\* offset_to_timezone.get(offset_hours), offset in milliseconds
lookup_offset(offset) ==
    IF \E k \in DOMAIN offset_to_timezone : k * MillisPerMinute = offset
    THEN offset_to_timezone[CHOOSE k \in DOMAIN offset_to_timezone :
                                k * MillisPerMinute = offset]
    ELSE Unset

\* local_time = datetime.now() is read first, utc_time = datetime.utcnow()
\* `gap` milliseconds later; the table is looked up with their difference.
detect_system_timezone(offMin, gap) == lookup_offset(offMin * MillisPerMinute - gap)

\* 2. the detected zone, 3. UTC
tzutils_detected(detected_tz, dbOK) ==
    IF detected_tz # Unset THEN Returns(get_timezone_safe(detected_tz, dbOK), "detect")
    ELSE Returns(get_timezone_safe("UTC", dbOK), "fallback")

tzutils_get_user_timezone(env, offMin, gap, dbOK) ==
    IF env # Unset /\ env # "" THEN Returns(get_timezone_safe(env, dbOK), "env")
    ELSE tzutils_detected(detect_system_timezone(offMin, gap), dbOK)

\* re.search(r'[+-]\d{2}:?\d{2}|Z$', s): an offset anywhere, or a final Z
\* the pattern reduced to its second alternative, Z$
tzutils_has_tz_only_z(s) == Len(s) >= 1 /\ s[Len(s)] = "Z"

tzutils_has_tz(s) ==
    \/ \E i \in 1..Len(s) : OffsetAt(s, i, 6) \/ OffsetAt(s, i, 5)
    \/ Len(s) >= 1 /\ s[Len(s)] = "Z"

\* f"{offset[:3]}:{offset[3:]}", offset being strftime('%z')
formatted_offset(offset) == SubSeq(offset, 1, 3) \o <<":">> \o SubSeq(offset, 4, Len(offset))

tzutils_normalize(s, tz, month) ==
    IF s = None \/ s = <<>> THEN s
    ELSE IF ~tzutils_has_tz(s)
      THEN with_time(s) \o formatted_offset(strftime_z(utcoffset(tz, month)))
    ELSE s

\* a normalize_datetime_for_user that tests the offset before the emptiness
tzutils_resolves_empty(s) == ~tzutils_has_tz(s)

\* the calls of normalize_datetime_for_user that reach get_user_timezone()
tzutils_resolves(s) == s # None /\ s # <<>> /\ ~tzutils_has_tz(s)

\* no timezone: server.USER_TIMEZONE before the module is imported, and the
\* history of timezone_utils before its first resolution
NoTz == [kind |-> "none", name |-> "", fixed |-> 0]

\* the first zone timezone_utils.get_user_timezone returned in this process
Remembered(user_tz) == IF resolved = NoTz THEN user_tz ELSE resolved

-----------------------------------------------------------------------------
(* The inputs drawn for the date functions *)

Years == (MaxYear - 1)..MaxYear

InMonths == {1, 2, 6, 12}

InDays == {1, 29, 31}

DateStr(y, m, d) == Fmt4(y) \o <<"-">> \o Fmt2(m) \o <<"-">> \o Fmt2(d)

TimeStr(sep, h, mi) == <<sep>> \o Fmt2(h) \o <<":">> \o Fmt2(mi) \o <<":", "0", "0">>

WellFormedDates == {DateStr(c[1], c[2], c[3]) :
                       c \in {c \in Years \X InMonths \X InDays : ValidDate(c[1], c[2], c[3])}}
                   \cup {DateStr(MaxYear, 6, 11)}

\* every combination (some are no calendar dates), and two malformed dates
DateParts == {DateStr(y, m, d) : y \in Years, m \in InMonths, d \in InDays}
             \cup {DateStr(MaxYear, 6, 11), DateStr(MaxYear, 13, 40),
                   <<"2", "0", "2", "5", "-", "6", "-", "1", "1">>}

WellFormedTimes == {TimeStr("T", 0, 0), TimeStr("T", 15, 0), TimeStr("T", 23, 30)}

TimeParts == {<<>>} \cup WellFormedTimes \cup {TimeStr("T", 25, 0), TimeStr(" ", 15, 0)}

ColonOffsets == {<<"+", "0", "7", ":", "0", "0">>, <<"-", "0", "5", ":", "0", "0">>}

PlainOffsets == {<<"+", "0", "7", "0", "0">>}

ZSuffix == <<"Z">>

\* an offset followed by a blank
BlankAfterOffset == <<"+", "0", "7", ":", "0", "0", " ">>

Suffixes == {<<>>, ZSuffix, <<"x">>, <<"+", "0", "7">>, BlankAfterOffset}
            \cup ColonOffsets \cup PlainOffsets

Inputs == {d \o t \o x : d \in DateParts, t \in TimeParts, x \in Suffixes}
          \cup {None, <<>>}

\* the three shapes of DateTimeInput
DateOnly == WellFormedDates

LocalDateTime == {d \o t : d \in WellFormedDates, t \in WellFormedTimes}

OffsetQualified == {d \o t \o x : d \in WellFormedDates, t \in WellFormedTimes,
                                  x \in ColonOffsets \cup PlainOffsets \cup {ZSuffix}}

FieldNames == {"start_date", "due_date"}

EnvChoices == {Unset, "", "Asia/Bangkok", "America/New_York", "Asia/Kolkata", "Mars/Phobos"}

NoProbes == [p1 |-> ProbeCaught, p2 |-> ProbeCaught, p3 |-> ProbeEmpty, p4 |-> "ICT"]

ClockMonths == {1, 7}

PyVersions == {"legacy", "py311"}

-----------------------------------------------------------------------------
(* Normalization and validation applied to the drawn inputs, in a process  *)
(* that has imported server (USER_TIMEZONE is computed at import).         *)

InitNorm ==
    /\ envTz \in {Unset, "Asia/Bangkok", "America/New_York", "Asia/Kolkata"}
    /\ probes = NoProbes
    /\ sysOffset = 0
    /\ elapsed = 1
    /\ zoneinfoOK = TRUE
    /\ py \in PyVersions
    /\ nowMonth \in ClockMonths
    /\ loaded = TRUE
    /\ USER_TIMEZONE = server_get_user_timezone(envTz, probes, zoneinfoOK).tz
    /\ resolved = NoTz
    /\ token = FALSE /\ ticktick = "None" /\ calls = <<>>
    /\ op = "idle"
    /\ arg = None
    /\ ret = None

\* Calls are sequential: one call is made, its result is observed, and the
\* process is ready for the next one.
Return ==
    /\ op # "idle"
    /\ op' = "idle"
    /\ arg' = None
    /\ ret' = None
    /\ calls' = <<>>
    /\ UNCHANGED <<envVars, loaded, USER_TIMEZONE, resolved, token, ticktick>>

ServerNormalize(s) ==
    /\ loaded
    /\ op = "idle"
    /\ op' = "server.normalize"
    /\ arg' = s
    /\ ret' = server_normalize(s, USER_TIMEZONE, nowMonth, py)
    /\ UNCHANGED <<envVars, loaded, USER_TIMEZONE, resolved, toolVars>>

TzNormalize(s) ==
    /\ op = "idle"
    /\ op' = "tzutils.normalize"
    /\ arg' = s
    /\ LET user_tz == tzutils_get_user_timezone(envTz, sysOffset, elapsed, zoneinfoOK).tz
       IN  /\ ret' = tzutils_normalize(s, user_tz, nowMonth)
           /\ resolved' = IF tzutils_resolves(s) THEN Remembered(user_tz) ELSE resolved
    /\ UNCHANGED <<envVars, loaded, USER_TIMEZONE, toolVars>>

ServerValidate(s, f) ==
    /\ loaded
    /\ op = "idle"
    /\ op' = "server.validate"
    /\ arg' = <<s, f>>
    /\ ret' = validate_datetime_string(s, f, py)
    /\ UNCHANGED <<envVars, loaded, USER_TIMEZONE, resolved, toolVars>>

TzValidate(s, f) ==
    /\ op = "idle"
    /\ op' = "tzutils.validate"
    /\ arg' = <<s, f>>
    /\ ret' = tzutils_validate_datetime_string(s, f, py)
    /\ UNCHANGED <<envVars, loaded, USER_TIMEZONE, resolved, toolVars>>

NextNorm ==
    \/ \E s \in Inputs : ServerNormalize(s)
    \/ \E s \in Inputs : TzNormalize(s)
    \/ \E s \in Inputs, f \in FieldNames : ServerValidate(s, f)
    \/ \E s \in Inputs, f \in FieldNames : TzValidate(s, f)
    \/ Return

SpecNorm == InitNorm /\ [][NextNorm]_vars

-----------------------------------------------------------------------------
(* Timezone resolution: the import of server (which computes               *)
(* USER_TIMEZONE), calls of the two get_user_timezone functions, and       *)
(* changes of the environment variable between them.                       *)

\* the largest delay between the two clock reads, in milliseconds
MaxGap == 1

ProbeSpace ==
    [p1 : {ProbeCaught, ProbeOther, ProbeEmpty, "Asia/Tokyo", "Mars/Phobos"},
     p2 : {ProbeCaught, ProbeOther, ProbeEmpty, "Europe/Berlin", "Mars/Phobos"},
     p3 : {ProbeOther, ProbeEmpty, "Asia/Seoul", "Mars/Phobos"},
     p4 : {"EST", "UTC", "ICT"}]

SysOffsets == {0, 420, 480, -300, 330, 345}

InitTz ==
    /\ envTz \in EnvChoices
    /\ \/ probes \in ProbeSpace /\ sysOffset = 0 /\ elapsed = MaxGap
       \/ probes = NoProbes /\ sysOffset \in SysOffsets /\ elapsed \in 0..MaxGap
    /\ zoneinfoOK \in BOOLEAN
    /\ py = "py311"
    /\ nowMonth = 1
    /\ loaded = FALSE
    /\ USER_TIMEZONE = NoTz
    /\ resolved = NoTz
    /\ token = FALSE /\ ticktick = "None" /\ calls = <<>>
    /\ op = "idle"
    /\ arg = None
    /\ ret = None

\* import / importlib.reload of server: line 31 needs ZoneInfo("UTC"), line 106
\* computes USER_TIMEZONE; an exception leaves the module unusable.
ImportServer ==
    /\ op = "idle"
    /\ op' = "server.import"
    /\ arg' = None
    /\ LET r == server_get_user_timezone(envTz, probes, zoneinfoOK)
       IN  IF ZoneInfoLoads("UTC", zoneinfoOK) /\ r.k = "ret"
           THEN loaded' = TRUE /\ USER_TIMEZONE' = r.tz /\ ret' = r
           ELSE loaded' = FALSE /\ USER_TIMEZONE' = NoTz /\ ret' = Raises
    /\ UNCHANGED <<envVars, resolved, toolVars>>

ServerGetUserTimezone ==
    /\ op = "idle"
    /\ loaded
    /\ op' = "server.get_user_timezone"
    /\ arg' = None
    /\ ret' = server_get_user_timezone(envTz, probes, zoneinfoOK)
    /\ UNCHANGED <<envVars, loaded, USER_TIMEZONE, resolved, toolVars>>

TzGetUserTimezone ==
    /\ op = "idle"
    /\ op' = "tzutils.get_user_timezone"
    /\ arg' = None
    /\ LET r == tzutils_get_user_timezone(envTz, sysOffset, elapsed, zoneinfoOK)
       IN  ret' = r /\ resolved' = Remembered(r.tz)
    /\ UNCHANGED <<envVars, loaded, USER_TIMEZONE, toolVars>>

\* the name detect_system_timezone returns (None is Unset)
DetectedName(name) == [k |-> "ret", tz |-> NoTz, via |-> name]

TzDetectSystemTimezone ==
    /\ op = "idle"
    /\ op' = "tzutils.detect_system_timezone"
    /\ arg' = None
    /\ ret' = DetectedName(detect_system_timezone(sysOffset, elapsed))
    /\ UNCHANGED <<envVars, loaded, USER_TIMEZONE, resolved, toolVars>>

\* os.environ['TICKTICK_USER_TIMEZONE'] = e
SetEnv(e) ==
    /\ op = "idle"
    /\ envTz' = e
    /\ UNCHANGED <<probes, sysOffset, elapsed, zoneinfoOK, py, nowMonth,
                   loaded, USER_TIMEZONE, resolved, toolVars, op, arg, ret>>

\* the date strings normalized between changes of the environment
ResolutionInputs == {DateStr(MaxYear, 6, 11), DateStr(MaxYear, 6, 11) \o TimeStr("T", 15, 0)}

NextTz ==
    \/ ImportServer
    \/ ServerGetUserTimezone
    \/ TzGetUserTimezone
    \/ TzDetectSystemTimezone
    \/ \E s \in ResolutionInputs : ServerNormalize(s)
    \/ \E s \in ResolutionInputs : TzNormalize(s)
    \/ \E e \in EnvChoices \ {envTz} : SetEnv(e)
    \/ Return

SpecTz == InitTz /\ [][NextTz]_vars

-----------------------------------------------------------------------------
(* The tool handlers of server.py.  The remote client (ticktick_client) is *)
(* the environment: its constructor returns or raises, and each of its     *)
(* methods returns data, returns {'error': ...} or raises.                 *)

ApiOutcomes == {"ok", "error", "raise"}

CtorOutcomes == {"ok", "raise"}

FailedToInitialize == <<"Failed to initialize TickTick client">>

InvalidPriority == <<"Invalid priority">>

\* a call of a method of the remote client and what it answered; item is the
\* position of the batch item or project it is made for, 0 outside the loops
Call(method, item, res) == [method |-> method, item |-> item, res |-> res]

\* initialize_client() without the test of the token
initialize_client_unchecked(tok, ctor, gp) ==
    IF ctor = "raise" THEN [ok |-> FALSE, client |-> "None", calls |-> <<>>]
    ELSE [ok |-> gp = "ok", client |-> "Client", calls |-> <<Call("get_projects", 0, gp)>>]

\* initialize_client(), called while server.ticktick is None: the client is
\* assigned before the connectivity test, which is a remote call.
initialize_client(tok, ctor, gp) ==
    IF ~tok THEN [ok |-> FALSE, client |-> "None", calls |-> <<>>]
    ELSE IF ctor = "raise" THEN [ok |-> FALSE, client |-> "None", calls |-> <<>>]
    ELSE [ok |-> gp = "ok", client |-> "Client", calls |-> <<Call("get_projects", 0, gp)>>]

\* if not ticktick: if not initialize_client(): return "Failed to initialize ..."
ensure_client(client, tok, ctor, gp) ==
    IF client # "None" THEN [ok |-> TRUE, client |-> client, calls |-> <<>>]
    ELSE initialize_client(tok, ctor, gp)

\* the body of a handler that calls one client method: f"Error ...: {e}" for
\* {'error': e} and for an exception, the formatted data otherwise
call_client(method, outcome) ==
    [ret |-> IF outcome = "ok" THEN <<"ok", method>>
             ELSE IF outcome = "error" THEN <<"Error", method, "error field">>
             ELSE <<"Error", method, "exception">>,
     calls |-> <<Call(method, 0, outcome)>>]

ValidPriorities == {0, 1, 3, 5}

\* an integer argument: given with value v, or left out (Python's None)
Given(v) == [given |-> TRUE, v |-> v]

NotGiven == [given |-> FALSE, v |-> 0]

\* if date_str: date_str = normalize_datetime_for_user(date_str)
normalize_if_given(date_str, tz, month, ver) ==
    IF date_str # None /\ date_str # <<>> THEN server_normalize(date_str, tz, month, ver)
    ELSE date_str

\* if date_str: datetime.fromisoformat(date_str.replace("Z", "+00:00")) raises
rejected(date_str, ver) ==
    date_str # None /\ date_str # <<>> /\ ~fromisoformat(replace_Z(date_str), ver).ok

\* the validation of the normalized dates s and d, then the client's method
checked_call(method, s, d, ver, res) ==
    IF rejected(s, ver) THEN [ret |-> InvalidFormat("start_date"), calls |-> <<>>]
    ELSE IF rejected(d, ver) THEN [ret |-> InvalidFormat("due_date"), calls |-> <<>>]
    ELSE call_client(method, res)

\* the try block of create_task and update_task: normalize, validate, call
task_body(method, start_date, due_date, tz, month, ver, res) ==
    checked_call(method, normalize_if_given(start_date, tz, month, ver),
                 normalize_if_given(due_date, tz, month, ver), ver, res)

\* the handler after the client is ensured (e) and the priority checked
\* (badPriority), b being the outcome of its try block
handler_result(e, badPriority, b) ==
    IF ~e.ok THEN [ret |-> FailedToInitialize, client |-> e.client, calls |-> e.calls]
    ELSE IF badPriority THEN [ret |-> InvalidPriority, client |-> e.client, calls |-> e.calls]
    ELSE [ret |-> b.ret, client |-> e.client, calls |-> e.calls \o b.calls]

get_projects(client, tok, ctor, gp, res) ==
    handler_result(ensure_client(client, tok, ctor, gp), FALSE,
                   call_client("get_projects", res))

\* priority defaults to 0
create_task(client, tok, ctor, gp, priority, start_date, due_date, tz, month, ver, res) ==
    handler_result(ensure_client(client, tok, ctor, gp),
                   priority.v \notin ValidPriorities,
                   task_body("create_task", start_date, due_date, tz, month, ver, res))

\* priority defaults to None
update_task(client, tok, ctor, gp, priority, start_date, due_date, tz, month, ver, res) ==
    handler_result(ensure_client(client, tok, ctor, gp),
                   priority.given /\ priority.v \notin ValidPriorities,
                   task_body("update_task", start_date, due_date, tz, month, ver, res))

\* an exception that leaves the handler
Raised(e) == <<"<raised>", e>>

NoTasksProvided == <<"No tasks provided to create.">>

NoUpdatesProvided == <<"No updates provided.">>

TooManyTasks == <<"Too many tasks. Maximum 50 tasks per batch for performance.">>

TooManyUpdates == <<"Too many task updates. Maximum 50 tasks per batch for performance.">>

\* len(tasks) > 50
BatchLimit == 50

\* an entry of failed_tasks / failed_updates; label tells whether it has the
\* 'title' (respectively 'task_id') key the report reads
Failure(label, error) == [ok |-> FALSE, label |-> label, error |-> error, calls |-> <<>>]

\* the client's answer to the call made for item i, as the loop records it
ItemCalled(method, i, res) ==
    [ok |-> res = "ok", label |-> TRUE,
     error |-> IF res = "ok" THEN "" ELSE IF res = "error" THEN "error field" ELSE "exception",
     calls |-> <<Call(method, i, res)>>]

\* one iteration of the loop of create_multiple_tasks (priority defaults to
\* 0; the dates are normalized and passed on without validation)
create_item(item, i) ==
    IF ~item.dict THEN Failure(FALSE, "Task must be a dictionary")
    ELSE IF ~item.title THEN Failure(FALSE, "Missing required field: title")
    ELSE IF ~item.project_id THEN Failure(FALSE, "Missing required field: project_id")
    ELSE IF item.priority.v \notin ValidPriorities THEN Failure(TRUE, "Invalid priority")
    ELSE ItemCalled("create_task", i, item.res)

\* one iteration of the loop of update_task_batch, v_start and v_due being
\* what validate_datetime_string answers for the dates as given
update_item(item, i, v_start, v_due) ==
    IF ~item.dict THEN Failure(FALSE, "Update must be a dictionary")
    ELSE IF ~item.task_id THEN Failure(FALSE, "Missing required field: task_id")
    ELSE IF ~item.project_id THEN Failure(FALSE, "Missing required field: project_id")
    ELSE IF item.priority.given /\ item.priority.v \notin ValidPriorities
      THEN Failure(TRUE, "Invalid priority")
    ELSE IF item.start_date # None /\ item.start_date # <<>> /\ v_start # None
      THEN Failure(TRUE, "Invalid start_date format")
    ELSE IF item.due_date # None /\ item.due_date # <<>> /\ v_due # None
      THEN Failure(TRUE, "Invalid due_date format")
    ELSE ItemCalled("update_task", i, item.res)

RECURSIVE entry_calls_abort(_, _)
\* the calls of a loop that ends at the first failed iteration
entry_calls_abort(entries, k) ==
    IF k > Len(entries) THEN <<>>
    ELSE IF ~entries[k].ok THEN entries[k].calls
    ELSE entries[k].calls \o entry_calls_abort(entries, k + 1)

RECURSIVE entry_calls(_, _)
\* the remote calls of the iterations from k on, in order
entry_calls(entries, k) ==
    IF k > Len(entries) THEN <<>>
    ELSE entries[k].calls \o entry_calls(entries, k + 1)

RECURSIVE report_lines(_, _, _)
\* the lines of the report for the entries with ok = want, in order
report_lines(entries, want, k) ==
    IF k > Len(entries) THEN <<>>
    ELSE (IF entries[k].ok = want
          THEN <<IF want THEN "done" ELSE "failed">> \o Fmt2(k) \o <<entries[k].error>>
          ELSE <<>>)
         \o report_lines(entries, want, k + 1)

\* successful_tasks[:5], successful_updates[:5]
ShownSuccesses == 5

\* the two count lines of the report: successes and failures out of n
count_lines(nOk, nFailed, n) ==
    <<"Successful">> \o Fmt2(nOk) \o <<"/">> \o Fmt2(n)
    \o <<"Failed">> \o Fmt2(nFailed) \o <<"/">> \o Fmt2(n)

\* '... and n more' after the first ShownSuccesses successes
more_line(nOk) ==
    IF nOk > ShownSuccesses THEN <<"... and">> \o Fmt2(nOk - ShownSuccesses) \o <<"more">>
    ELSE <<>>

RECURSIVE success_lines(_, _, _)
\* the lines of the first `left` successes among the entries from k on
success_lines(entries, k, left) ==
    IF k > Len(entries) \/ left = 0 THEN <<>>
    ELSE IF entries[k].ok
      THEN <<"done">> \o Fmt2(k) \o <<entries[k].error>> \o success_lines(entries, k + 1, left - 1)
    ELSE success_lines(entries, k + 1, left)

\* successful_tasks and failed_tasks (successful_updates, failed_updates)
\* before the loop, as the positions of the items they record
NoneRecorded == [successful |-> <<>>, failed |-> <<>>]

\* an iteration that also reaches a failed_tasks.append after its success
record_twice(acc, entry, k) ==
    [successful |-> IF entry.ok THEN Append(acc.successful, k) ELSE acc.successful,
     failed |-> Append(acc.failed, k)]

\* the one append of iteration k: to the successes when the client
\* returned a task, to the failures on every other path
record(acc, entry, k) ==
    [successful |-> IF entry.ok THEN Append(acc.successful, k) ELSE acc.successful,
     failed |-> IF entry.ok THEN acc.failed ELSE Append(acc.failed, k)]

RECURSIVE batch_loop(_, _, _, _)
\* the two lists after iterations k to n, acc being the lists before them
\* (the test on the lengths never holds: it has the lists evaluated at each
\* iteration, not as fifty nested appends at the end)
batch_loop(entries, k, n, acc) ==
    IF k > n \/ Len(acc.successful) + Len(acc.failed) < 0 THEN acc
    ELSE batch_loop(entries, k + 1, n, record(acc, entries[k], k))

\* the report once no failure entry lacks its label: the counts, the first
\* successes, and every failure
report_text(header, entries, acc) ==
    <<header>> \o count_lines(Len(acc.successful), Len(acc.failed), Len(entries))
    \o success_lines(entries, 1, ShownSuccesses) \o more_line(Len(acc.successful))
    \o report_lines(entries, FALSE, 1)

\* the summary: the successes, then the failures; failure['title'] /
\* failure['task_id'] is read from every failure entry, outside any try
batch_report(header, entries) ==
    IF \E k \in 1..Len(entries) : ~entries[k].ok /\ ~entries[k].label
    THEN Raised("KeyError")
    ELSE report_text(header, entries, batch_loop(entries, 1, Len(entries), NoneRecorded))

\* the batch handler after the client is ensured (e), for the given size and
\* the entries its loop would collect
batch_result(e, size, empty, toomany, header, entries) ==
    IF ~e.ok THEN [ret |-> FailedToInitialize, client |-> e.client, calls |-> e.calls]
    ELSE IF size = 0 THEN [ret |-> empty, client |-> e.client, calls |-> e.calls]
    ELSE IF size > BatchLimit THEN [ret |-> toomany, client |-> e.client, calls |-> e.calls]
    ELSE [ret |-> batch_report(header, entries), client |-> e.client,
          calls |-> e.calls \o entry_calls(entries, 1)]

\* what the iterations of create_multiple_tasks come to, item by item
create_entries(tasks) == [i \in 1..Len(tasks) |-> create_item(tasks[i], i)]

create_multiple_tasks(client, tok, ctor, gp, tasks) ==
    batch_result(ensure_client(client, tok, ctor, gp), Len(tasks),
                 NoTasksProvided, TooManyTasks, "Batch task creation completed",
                 create_entries(tasks))

\* what the iterations of update_task_batch come to, item by item
update_entries(updates, ver) ==
    [i \in 1..Len(updates) |->
        update_item(updates[i], i,
                    validate_datetime_string(updates[i].start_date, "start_date", ver),
                    validate_datetime_string(updates[i].due_date, "due_date", ver))]

update_task_batch(client, tok, ctor, gp, updates, ver) ==
    batch_result(ensure_client(client, tok, ctor, gp), Len(updates),
                 NoUpdatesProvided, TooManyUpdates, "Batch task update completed",
                 update_entries(updates, ver))

ViewModes == {"list", "kanban", "timeline"}

InvalidViewMode == <<"Invalid view_mode">>

\* create_project after the client is ensured (e), b being the outcome of
\* its try block
project_result(e, badMode, b) ==
    IF ~e.ok THEN [ret |-> FailedToInitialize, client |-> e.client, calls |-> e.calls]
    ELSE IF badMode THEN [ret |-> InvalidViewMode, client |-> e.client, calls |-> e.calls]
    ELSE [ret |-> b.ret, client |-> e.client, calls |-> e.calls \o b.calls]

create_project(client, tok, ctor, gp, view_mode, res) ==
    project_result(ensure_client(client, tok, ctor, gp), view_mode \notin ViewModes,
                   call_client("create_project", res))

\* the status line of format_task, status being task.get('status')
format_task_subtask(status) ==
    <<"Status", IF status.given /\ status.v = 1 THEN "Completed" ELSE "Active">>

format_task(status) ==
    <<"Status", IF status.given /\ status.v = 2 THEN "Completed" ELSE "Active">>

\* the try block of get_task: the formatted task when the client returns one
task_reply(res, status) ==
    IF res = "ok" THEN [ret |-> format_task(status), calls |-> <<Call("get_task", 0, res)>>]
    ELSE call_client("get_task", res)

get_task(client, tok, ctor, gp, res, status) ==
    handler_result(ensure_client(client, tok, ctor, gp), FALSE, task_reply(res, status))

RECURSIVE fetch_projects(_, _)
\* for project in projects: get_project_with_data, from the k-th project on;
\* an {'error': ...} answer is left out of all_tasks, an exception ends the loop
fetch_projects(data, k) ==
    IF k > Len(data) THEN [raised |-> FALSE, calls |-> <<>>]
    ELSE IF data[k] = "raise"
      THEN [raised |-> TRUE, calls |-> <<Call("get_project_with_data", k, data[k])>>]
    ELSE [raised |-> fetch_projects(data, k + 1).raised,
          calls |-> <<Call("get_project_with_data", k, data[k])>>
                    \o fetch_projects(data, k + 1).calls]

\* str.lower(), over the letters the titles and the queries are written in
lower_char(c) == IF c = "O" THEN "o" ELSE IF c = "K" THEN "k" ELSE c

lower(s) == [i \in 1..Len(s) |-> lower_char(s[i])]

\* q in s, for two strings
is_substring(q, s) == \E i \in 0..(Len(s) - Len(q)) : SubSeq(s, i + 1, i + Len(q)) = q

\* task.get(key, ''): the value of the key (None for a null), '' without it
get_or_empty(field) == IF field.given THEN field.v ELSE <<>>

\* one iteration of `for task in all_tasks` of search_tasks, a task being
\* [status, title, content]: the task is skipped as completed, .lower() of
\* None raises AttributeError, or the query is looked up in both texts
search_step(task, query_lower, include_completed) ==
    IF ~include_completed /\ task.status.given /\ task.status.v = 2 THEN "skip"
    ELSE IF get_or_empty(task.title) = None \/ get_or_empty(task.content) = None THEN "raise"
    ELSE IF \/ is_substring(query_lower, lower(get_or_empty(task.title)))
            \/ is_substring(query_lower, lower(get_or_empty(task.content)))
      THEN "match"
    ELSE "nomatch"

\* matching_tasks, as positions in all_tasks
matching_tasks(all_tasks, query, include_completed) ==
    SelectSeq([k \in 1..Len(all_tasks) |-> k],
              LAMBDA k : search_step(all_tasks[k], lower(query), include_completed) = "match")

\* matching_tasks[:10]
ShownMatches == 10

NoTasksFound == <<"No tasks found matching">>

RECURSIVE search_lines(_, _, _)
\* one entry per rendered match, from the i-th on: its position in
\* all_tasks and the lines of format_task
search_lines(matches, all_tasks, i) ==
    IF i > Len(matches) \/ i > ShownMatches THEN <<>>
    ELSE <<"task">> \o Fmt2(matches[i]) \o format_task(all_tasks[matches[i]].status)
         \o search_lines(matches, all_tasks, i + 1)

\* the filter and the report of search_tasks over all_tasks
search_report(all_tasks, query, include_completed) ==
    LET matches == matching_tasks(all_tasks, query, include_completed)
    IN  IF \E k \in 1..Len(all_tasks) :
              search_step(all_tasks[k], lower(query), include_completed) = "raise"
        THEN <<"Error", "search_tasks", "exception">>
        ELSE IF matches = <<>> THEN NoTasksFound
        ELSE <<"Found">> \o Fmt2(Len(matches)) \o search_lines(matches, all_tasks, 1)
             \o (IF Len(matches) > ShownMatches
                 THEN <<"more">> \o Fmt2(Len(matches) - ShownMatches) ELSE <<>>)

RECURSIVE extend_tasks(_, _, _)
\* all_tasks.extend(project_data.get('tasks', [])) over the projects from
\* the k-th on, every project that answers with data answering `tasks`
extend_tasks(data, tasks, k) ==
    IF k > Len(data) THEN <<>>
    ELSE (IF data[k] = "ok" THEN tasks ELSE <<>>) \o extend_tasks(data, tasks, k + 1)

\* the search over all projects once get_projects answered (res), f being
\* the outcome of the loop over the projects
search_all(res, f, all_tasks, query, include_completed) ==
    IF res # "ok" THEN call_client("get_projects", res)
    ELSE [ret |-> IF f.raised THEN <<"Error", "search_tasks", "exception">>
                  ELSE search_report(all_tasks, query, include_completed),
          calls |-> <<Call("get_projects", 0, res)>> \o f.calls]

\* the try block of search_tasks: one project (project_id given) or all
search_body(one, res, data, query, include_completed, tasks) ==
    IF one
    THEN IF res = "ok"
         THEN [ret |-> search_report(tasks, query, include_completed),
               calls |-> <<Call("get_project_with_data", 0, res)>>]
         ELSE call_client("get_project_with_data", res)
    ELSE search_all(res, fetch_projects(data, 1), extend_tasks(data, tasks, 1),
                    query, include_completed)

search_tasks(client, tok, ctor, gp, one, res, data, query, include_completed, tasks) ==
    handler_result(ensure_client(client, tok, ctor, gp), FALSE,
                   search_body(one, res, data, query, include_completed, tasks))

-----------------------------------------------------------------------------
(* server.get_overdue_tasks and server.get_upcoming_tasks.  A project of   *)
(* get_projects is [closed, res, tasks]: its 'closed' flag, what           *)
(* get_project_with_data answers for it, and the tasks of that answer.  A  *)
(* task is [status, due]: task.get('status') and task.get('dueDate').      *)

\* datetime.now(USER_TIMEZONE), as a UTC date-time
Now == [y |-> MaxYear, m |-> nowMonth, d |-> 15, hh |-> 12, mi |-> 0, ss |-> 0]

\* astimezone(tz): the wall clock of zone tz at the UTC date-time u
FromUTC(u, tz) == ShiftDay(u, u.hh * 60 + u.mi + utcoffset(tz, u.m))

RECURSIVE AddDays(_, _)
\* p + timedelta(days=n), on the wall clock
AddDays(p, n) ==
    IF n = 0 THEN p ELSE AddDays(ShiftDay(p, p.hh * 60 + p.mi + 1440), n - 1)

\* now + timedelta(days=days) in the user's zone, as a UTC date-time
future_cutoff(days, tz) == ToUTC(AddDays(FromUTC(Now, tz), days), tz)

\* the UTC date-time of the parsed due date p: astimezone for an aware
\* value, replace(tzinfo=USER_TIMEZONE) for a naive one
due_instant(p, tz) ==
    IF p.aware THEN ShiftDay(p, p.hh * 60 + p.mi - p.off) ELSE ToUTC(p, tz)

Key(u) == <<u.y, u.m, u.d, u.hh, u.mi, u.ss>>

\* a < b for two UTC date-times
Before(a, b) ==
    \E i \in 1..6 : Key(a)[i] < Key(b)[i] /\ \A j \in 1..(i - 1) : Key(a)[j] = Key(b)[j]

\* one iteration of `for task in all_tasks` up to the comparison: whether
\* the task has a due date to compare (p is the parsed dueDate), and the
\* instant of that date
dated(task, k, p, tz) ==
    [k |-> k,
     has |-> ~(task.status.given /\ task.status.v = 2)
             /\ task.due # None /\ task.due # <<>> /\ p.ok,
     at |-> IF p.ok THEN due_instant(p, tz) ELSE Now]

\* every task of all_tasks with its parsed due date
all_dated(all_tasks, tz, ver) ==
    [k \in 1..Len(all_tasks) |->
        dated(all_tasks[k], k,
              IF all_tasks[k].due = None THEN BadParse
              ELSE fromisoformat(replace_Z(all_tasks[k].due), ver), tz)]

\* the place of x in a list sorted by due instant: after the entries that
\* are not later (list.sort is stable)
insert_due(sorted, x, n) == SubSeq(sorted, 1, n) \o <<x>> \o SubSeq(sorted, n + 1, Len(sorted))

RECURSIVE sort_by_due(_, _)
\* .sort(key=lambda x: x[1]) of the first k entries
sort_by_due(entries, k) ==
    IF k = 0 THEN <<>>
    ELSE LET sorted == sort_by_due(entries, k - 1)
         IN  insert_due(sorted, entries[k],
                        Cardinality({i \in 1..Len(sorted) :
                                        ~Before(entries[k].at, sorted[i].at)}))

\* due_date <= now in the place of due_date < now
overdue_tasks_or_now(all_tasks, tz, ver) ==
    LET found == SelectSeq(all_dated(all_tasks, tz, ver),
                           LAMBDA e : e.has /\ ~Before(Now, e.at))
    IN  sort_by_due(found, Len(found))

\* overdue_tasks: due_date < now
overdue_tasks(all_tasks, tz, ver) ==
    LET found == SelectSeq(all_dated(all_tasks, tz, ver),
                           LAMBDA e : e.has /\ Before(e.at, Now))
    IN  sort_by_due(found, Len(found))

\* upcoming_tasks: now <= due_date <= future_cutoff
upcoming_tasks(all_tasks, cutoff, tz, ver) ==
    LET found == SelectSeq(all_dated(all_tasks, tz, ver),
                           LAMBDA e : e.has /\ ~Before(e.at, Now) /\ ~Before(cutoff, e.at))
    IN  sort_by_due(found, Len(found))

RECURSIVE task_lines(_, _, _)
\* one entry of the report per task found, from the i-th on: its position
\* in all_tasks, and for the overdue report the lines of format_task
task_lines(found, all_tasks, i) ==
    IF i > Len(found) THEN <<>>
    ELSE <<"task">> \o Fmt2(found[i].k) \o format_task(all_tasks[found[i].k].status)
         \o task_lines(found, all_tasks, i + 1)

NoOverdue == <<"No overdue tasks found">>

overdue_report(found, all_tasks) ==
    IF found = <<>> THEN NoOverdue
    ELSE <<"Found">> \o Fmt2(Len(found)) \o task_lines(found, all_tasks, 1)

\* get_project_with_data(project_id) of a date query limited to one project
one_project(method, project) ==
    IF project.res = "ok"
    THEN [ok |-> TRUE, ret |-> <<>>, tasks |-> project.tasks,
          calls |-> <<Call("get_project_with_data", 1, "ok")>>]
    ELSE [ok |-> FALSE,
          ret |-> IF project.res = "error" THEN <<"Error", "get_project_with_data", "error field">>
                  ELSE <<"Error", method, "exception">>,
          tasks |-> <<>>,
          calls |-> <<Call("get_project_with_data", 1, project.res)>>]

RECURSIVE overdue_fetch(_, _, _)
\* for project in projects: get_project_with_data, from the k-th on; an
\* {'error': ...} answer adds no task, an exception ends the request
overdue_fetch(projects, k, acc) ==
    IF k > Len(projects) THEN acc
    ELSE IF projects[k].res = "raise"
      THEN [ok |-> FALSE, ret |-> <<"Error", "get_overdue_tasks", "exception">>,
            tasks |-> <<>>,
            calls |-> acc.calls \o <<Call("get_project_with_data", k, "raise")>>]
    ELSE overdue_fetch(projects, k + 1,
             [acc EXCEPT !.calls = @ \o <<Call("get_project_with_data", k, projects[k].res)>>,
                         !.tasks = @ \o (IF projects[k].res = "ok" THEN projects[k].tasks
                                         ELSE <<>>)])

\* the tasks a date query works on: those of one project, or of all
overdue_scope(one, gpres, projects) ==
    IF one THEN one_project("get_overdue_tasks", projects[1])
    ELSE IF gpres = "error"
      THEN [ok |-> FALSE, ret |-> <<"Error", "get_projects", "error field">>, tasks |-> <<>>,
            calls |-> <<Call("get_projects", 0, gpres)>>]
    ELSE IF gpres = "raise"
      THEN [ok |-> FALSE, ret |-> <<"Error", "get_overdue_tasks", "exception">>, tasks |-> <<>>,
            calls |-> <<Call("get_projects", 0, gpres)>>]
    ELSE overdue_fetch(projects, 1,
             [ok |-> TRUE, ret |-> <<>>, tasks |-> <<>>,
              calls |-> <<Call("get_projects", 0, gpres)>>])

\* the try block of get_overdue_tasks, sc being the tasks in scope
overdue_body(sc, tz, ver) ==
    [ret |-> IF sc.ok THEN overdue_report(overdue_tasks(sc.tasks, tz, ver), sc.tasks)
             ELSE sc.ret,
     calls |-> sc.calls]

get_overdue_tasks(client, tok, ctor, gp, one, gpres, projects, tz, ver) ==
    handler_result(ensure_client(client, tok, ctor, gp), FALSE,
                   overdue_body(overdue_scope(one, gpres, projects), tz, ver))

DaysNotPositive == <<"Days must be a positive number.">>

DaysTooMany == <<"Days cannot exceed 365 for performance reasons.">>

\* days > 365
MaxDays == 365

\* os.getenv('TICKTICK_PROJECT_LIMIT', '20')
DefaultProjectLimit == 20

\* int(os.getenv('TICKTICK_PROJECT_LIMIT', '20')) for an unset variable
\* (None), a string of digits with an optional sign, and anything else
\* (ValueError)
PROJECT_LIMIT(limit) ==
    IF limit = None THEN [ok |-> TRUE, v |-> DefaultProjectLimit]
    ELSE IF limit # <<>> /\ AllDigits(limit) THEN [ok |-> TRUE, v |-> Num(limit)]
    ELSE IF Len(limit) >= 2 /\ limit[1] \in {"+", "-"} /\ AllDigits(Tail(limit))
      THEN [ok |-> TRUE, v |-> (IF limit[1] = "-" THEN -1 ELSE 1) * Num(Tail(limit))]
    ELSE [ok |-> FALSE, v |-> 0]

\* [p for p in projects if not p.get('closed', False)], as positions in projects
active_projects(projects) ==
    SelectSeq([k \in 1..Len(projects) |-> k], LAMBDA k : ~projects[k].closed)

\* active_projects[:PROJECT_LIMIT] when there are more than PROJECT_LIMIT
limited_projects(active, cap) ==
    IF Len(active) > cap
    THEN SubSeq(active, 1, IF cap >= 0 THEN cap
                           ELSE IF Len(active) + cap > 0 THEN Len(active) + cap ELSE 0)
    ELSE active

RECURSIVE upcoming_fetch(_, _, _, _)
\* for project in limited_projects: one get_project_with_data each, from
\* the i-th on; an {'error': ...} answer and an exception count as failed
upcoming_fetch(projects, limited, i, acc) ==
    IF i > Len(limited) THEN acc
    ELSE upcoming_fetch(projects, limited, i + 1,
             [calls |-> acc.calls
                        \o <<Call("get_project_with_data", limited[i], projects[limited[i]].res)>>,
              tasks |-> acc.tasks \o (IF projects[limited[i]].res = "ok"
                                      THEN projects[limited[i]].tasks ELSE <<>>),
              successful_projects |-> acc.successful_projects
                                      + (IF projects[limited[i]].res = "ok" THEN 1 ELSE 0),
              failed_projects |-> acc.failed_projects
                                  + (IF projects[limited[i]].res = "ok" THEN 0 ELSE 1)])

\* the performance statistics of the report over all projects
stats_lines(f, limitedNote) ==
    <<"processed">> \o Fmt2(f.successful_projects)
    \o (IF f.failed_projects > 0 THEN <<"skipped">> \o Fmt2(f.failed_projects) ELSE <<>>)
    \o (IF limitedNote THEN <<"Limited">> ELSE <<>>)

RECURSIVE upcoming_lines(_, _)
upcoming_lines(found, i) ==
    IF i > Len(found) THEN <<>>
    ELSE <<"task">> \o Fmt2(found[i].k) \o upcoming_lines(found, i + 1)

upcoming_report(found, stats) ==
    <<"Found">> \o Fmt2(Len(found)) \o stats \o upcoming_lines(found, 1)

\* the all-projects branch once get_projects answered a list: cap is
\* PROJECT_LIMIT, active the non-closed projects
upcoming_all(projects, active, cap, cutoff, tz, ver) ==
    IF ~cap.ok
    THEN [ret |-> <<"Error", "get_upcoming_tasks", "exception">>,
          calls |-> <<Call("get_projects", 0, "ok")>>]
    ELSE LET f == upcoming_fetch(projects, limited_projects(active, cap.v), 1,
                      [calls |-> <<Call("get_projects", 0, "ok")>>, tasks |-> <<>>,
                       successful_projects |-> 0, failed_projects |-> 0])
         IN  [ret |-> upcoming_report(upcoming_tasks(f.tasks, cutoff, tz, ver),
                                      stats_lines(f, Len(active) > cap.v)),
              calls |-> f.calls]

\* the try block of get_upcoming_tasks
upcoming_body(one, gpres, limit, projects, cutoff, tz, ver) ==
    IF one
    THEN LET sc == one_project("get_upcoming_tasks", projects[1])
         IN  [ret |-> IF sc.ok
                      THEN upcoming_report(upcoming_tasks(sc.tasks, cutoff, tz, ver), <<>>)
                      ELSE sc.ret,
              calls |-> sc.calls]
    ELSE IF gpres = "error"
      THEN [ret |-> <<"Error", "get_projects", "error field">>,
            calls |-> <<Call("get_projects", 0, gpres)>>]
    ELSE IF gpres = "raise"
      THEN [ret |-> <<"Error", "get_upcoming_tasks", "exception">>,
            calls |-> <<Call("get_projects", 0, gpres)>>]
    ELSE upcoming_all(projects, active_projects(projects), PROJECT_LIMIT(limit),
                      cutoff, tz, ver)

\* get_upcoming_tasks after the client is ensured (e)
upcoming_result(e, days, b) ==
    IF ~e.ok THEN [ret |-> FailedToInitialize, client |-> e.client, calls |-> e.calls]
    ELSE IF days <= 0 THEN [ret |-> DaysNotPositive, client |-> e.client, calls |-> e.calls]
    ELSE IF days > MaxDays THEN [ret |-> DaysTooMany, client |-> e.client, calls |-> e.calls]
    ELSE [ret |-> b.ret, client |-> e.client, calls |-> e.calls \o b.calls]

get_upcoming_tasks(client, tok, ctor, gp, days, one, gpres, limit, projects, tz, ver) ==
    upcoming_result(ensure_client(client, tok, ctor, gp), days,
                    upcoming_body(one, gpres, limit, projects,
                                  future_cutoff(IF days \in 1..MaxDays THEN days ELSE 0, tz),
                                  tz, ver))

-----------------------------------------------------------------------------
(* The tools called one after the other in a process that has imported     *)
(* server: server.ticktick starts as None.                                 *)

ToolDates == {None,
              DateStr(MaxYear, 6, 1),
              DateStr(MaxYear, 6, 1) \o TimeStr("T", 15, 0),
              DateStr(MaxYear, 13, 40),
              DateStr(MaxYear, 6, 1) \o TimeStr("T", 15, 0) \o ZSuffix}

Priorities == {Given(0), Given(5), Given(7), Given(-1)}

\* the longest of the short batches drawn
MaxBatch == 2

\* the largest number of projects the account holds
MaxProjects == 2

ProjectData == UNION {[1..n -> ApiOutcomes] : n \in 0..MaxProjects}

ViewModeInputs == ViewModes \cup {"grid"}

Statuses == {NotGiven, Given(0), Given(1), Given(2), Given(-1)}

\* a batch item: whether it is a dictionary, which of the required keys it
\* has, its optional fields, and what the client answers if called for it
GoodItem(res) ==
    [dict |-> TRUE, title |-> TRUE, task_id |-> TRUE, project_id |-> TRUE,
     priority |-> NotGiven, start_date |-> None, due_date |-> None, res |-> res]

BatchItems ==
    {GoodItem(res) : res \in ApiOutcomes}
    \cup {[GoodItem("ok") EXCEPT !.dict = FALSE],
          [GoodItem("ok") EXCEPT !.title = FALSE, !.task_id = FALSE],
          [GoodItem("ok") EXCEPT !.project_id = FALSE],
          [GoodItem("ok") EXCEPT !.priority = Given(7)],
          [GoodItem("ok") EXCEPT !.due_date = DateStr(MaxYear, 13, 40)],
          [GoodItem("ok") EXCEPT !.start_date = DateStr(MaxYear, 6, 1) \o TimeStr("T", 15, 0)]}

Batches ==
    UNION {[1..n -> BatchItems] : n \in 0..MaxBatch}
    \cup {[i \in 1..BatchLimit |-> GoodItem("ok")],
          [i \in 1..(BatchLimit + 1) |-> GoodItem("ok")],
          [i \in 1..(ShownSuccesses + 1) |-> [GoodItem("ok") EXCEPT !.priority = Given(7)]],
          [i \in 1..BatchLimit |-> [GoodItem("ok") EXCEPT !.priority = Given(7)]]}

Init ==
    /\ envTz \in {Unset, "Asia/Bangkok"}
    /\ probes = NoProbes
    /\ sysOffset = 0
    /\ elapsed = 1
    /\ zoneinfoOK = TRUE
    /\ py \in PyVersions
    /\ nowMonth = 1
    /\ loaded = TRUE
    /\ USER_TIMEZONE = server_get_user_timezone(envTz, probes, zoneinfoOK).tz
    /\ resolved = NoTz
    /\ token \in BOOLEAN
    /\ ticktick = "None"
    /\ calls = <<>>
    /\ op = "idle"
    /\ arg = None
    /\ ret = None

\* TickTickClient() and the connectivity test run only when server.ticktick
\* is None and the token is there; otherwise their outcomes are not drawn
Drawn(ctor, gp) == (ticktick # "None" \/ ~token) => (ctor = "ok" /\ gp = "ok")

\* the credential appears (the user authenticates) or disappears
SetToken(b) ==
    /\ op = "idle"
    /\ token' = b
    /\ UNCHANGED <<envVars, loaded, USER_TIMEZONE, resolved, ticktick, calls, op, arg, ret>>

GetProjects(ctor, gp, res) ==
    /\ op = "idle"
    /\ Drawn(ctor, gp)
    /\ LET r == get_projects(ticktick, token, ctor, gp, res)
       IN  /\ ret' = r.ret
           /\ ticktick' = r.client
           /\ calls' = r.calls
    /\ op' = "get_projects"
    /\ arg' = [client_before |-> ticktick, ctor |-> ctor, gp |-> gp, res |-> res]
    /\ UNCHANGED <<envVars, loaded, USER_TIMEZONE, resolved, token>>

CreateTask(ctor, gp, res, priority, start_date, due_date) ==
    /\ op = "idle"
    /\ Drawn(ctor, gp)
    /\ LET r == create_task(ticktick, token, ctor, gp, priority, start_date, due_date,
                            USER_TIMEZONE, nowMonth, py, res)
       IN  /\ ret' = r.ret
           /\ ticktick' = r.client
           /\ calls' = r.calls
    /\ op' = "create_task"
    /\ arg' = [client_before |-> ticktick, ctor |-> ctor, gp |-> gp, res |-> res,
               priority |-> priority, start_date |-> start_date, due_date |-> due_date]
    /\ UNCHANGED <<envVars, loaded, USER_TIMEZONE, resolved, token>>

UpdateTask(ctor, gp, res, priority, start_date, due_date) ==
    /\ op = "idle"
    /\ Drawn(ctor, gp)
    /\ LET r == update_task(ticktick, token, ctor, gp, priority, start_date, due_date,
                            USER_TIMEZONE, nowMonth, py, res)
       IN  /\ ret' = r.ret
           /\ ticktick' = r.client
           /\ calls' = r.calls
    /\ op' = "update_task"
    /\ arg' = [client_before |-> ticktick, ctor |-> ctor, gp |-> gp, res |-> res,
               priority |-> priority, start_date |-> start_date, due_date |-> due_date]
    /\ UNCHANGED <<envVars, loaded, USER_TIMEZONE, resolved, token>>

CreateMultipleTasks(ctor, gp, tasks) ==
    /\ op = "idle"
    /\ Drawn(ctor, gp)
    /\ LET r == create_multiple_tasks(ticktick, token, ctor, gp, tasks)
       IN  /\ ret' = r.ret
           /\ ticktick' = r.client
           /\ calls' = r.calls
    /\ op' = "create_multiple_tasks"
    /\ arg' = [client_before |-> ticktick, ctor |-> ctor, gp |-> gp, items |-> tasks]
    /\ UNCHANGED <<envVars, loaded, USER_TIMEZONE, resolved, token>>

UpdateTaskBatch(ctor, gp, updates) ==
    /\ op = "idle"
    /\ Drawn(ctor, gp)
    /\ LET r == update_task_batch(ticktick, token, ctor, gp, updates, py)
       IN  /\ ret' = r.ret
           /\ ticktick' = r.client
           /\ calls' = r.calls
    /\ op' = "update_task_batch"
    /\ arg' = [client_before |-> ticktick, ctor |-> ctor, gp |-> gp, items |-> updates]
    /\ UNCHANGED <<envVars, loaded, USER_TIMEZONE, resolved, token>>

CreateProject(ctor, gp, res, view_mode) ==
    /\ op = "idle"
    /\ Drawn(ctor, gp)
    /\ LET r == create_project(ticktick, token, ctor, gp, view_mode, res)
       IN  /\ ret' = r.ret
           /\ ticktick' = r.client
           /\ calls' = r.calls
    /\ op' = "create_project"
    /\ arg' = [client_before |-> ticktick, ctor |-> ctor, gp |-> gp, res |-> res,
               view_mode |-> view_mode]
    /\ UNCHANGED <<envVars, loaded, USER_TIMEZONE, resolved, token>>

GetTask(ctor, gp, res, status) ==
    /\ op = "idle"
    /\ Drawn(ctor, gp)
    /\ LET r == get_task(ticktick, token, ctor, gp, res, status)
       IN  /\ ret' = r.ret
           /\ ticktick' = r.client
           /\ calls' = r.calls
    /\ op' = "get_task"
    /\ arg' = [client_before |-> ticktick, ctor |-> ctor, gp |-> gp, res |-> res,
               status |-> status]
    /\ UNCHANGED <<envVars, loaded, USER_TIMEZONE, resolved, token>>

\* the dueDate format of the TickTick API: milliseconds and +0000
ApiDate(y, m, d, h) ==
    DateStr(y, m, d) \o TimeStr("T", h, 0) \o <<".", "0", "0", "0", "+", "0", "0", "0", "0">>

UtcDate(y, m, d, h) == DateStr(y, m, d) \o TimeStr("T", h, 0) \o <<"+", "0", "0", ":", "0", "0">>

\* due dates around the clock of the model (Now is noon UTC of the 15th)
PastApi == ApiDate(MaxYear, nowMonth, 14, 12)

PastZ == DateStr(MaxYear, nowMonth, 10) \o TimeStr("T", 9, 0) \o ZSuffix

\* 11:00 UTC
PastByOffset ==
    DateStr(MaxYear, nowMonth, 15) \o TimeStr("T", 18, 0) \o <<"+", "0", "7", ":", "0", "0">>

\* without offset: 15:00 on the user's clock
LocalAfternoon == DateStr(MaxYear, nowMonth, 15) \o TimeStr("T", 15, 0)

RightNow == UtcDate(MaxYear, nowMonth, 15, 12)

NextNoon == UtcDate(MaxYear, nowMonth, 16, 12)

NextWeekApi == ApiDate(MaxYear, nowMonth, 20, 12)

FarAhead == UtcDate(MaxYear, nowMonth + 2, 1, 0)

DueDates ==
    {None, DateStr(MaxYear, 13, 40), PastApi, PastByOffset, LocalAfternoon, RightNow,
     NextNoon, NextWeekApi, FarAhead}

Task(status, due) == [status |-> status, due |-> due]

TaskChoices ==
    {Task(Given(0), due) : due \in DueDates}
    \cup {Task(NotGiven, PastZ), Task(Given(2), PastZ), Task(Given(2), NextNoon)}

\* the longest list of tasks of the project a query is limited to
MaxTasks == 2

TaskLists == UNION {[1..n -> TaskChoices] : n \in 0..MaxTasks}

Project(closed, res, tasks) == [closed |-> closed, res |-> res, tasks |-> tasks]

ProjectChoices ==
    {Project(TRUE, "ok", <<Task(Given(0), PastZ)>>),
     Project(FALSE, "error", <<>>),
     Project(FALSE, "raise", <<>>),
     Project(FALSE, "ok", <<Task(Given(0), PastZ)>>),
     Project(FALSE, "ok", <<Task(Given(0), NextWeekApi), Task(Given(0), NextNoon)>>)}

\* what get_projects lists: up to MaxProjects projects, and one more open
\* project than the default limit
ProjectLists ==
    UNION {[1..n -> ProjectChoices] : n \in 0..MaxProjects}
    \cup {[k \in 1..(DefaultProjectLimit + 1) |-> Project(FALSE, "ok", <<>>)]}

\* the scope of a date query: project_id given, or all projects with what
\* get_projects answers
QueryScopes ==
    {[one |-> TRUE, gpres |-> "ok", projects |-> <<Project(FALSE, "ok", t)>>] : t \in TaskLists}
    \cup {[one |-> TRUE, gpres |-> "ok", projects |-> <<Project(FALSE, r, <<>>)>>] :
             r \in {"error", "raise"}}
    \cup {[one |-> FALSE, gpres |-> "ok", projects |-> ps] : ps \in ProjectLists}
    \cup {[one |-> FALSE, gpres |-> r, projects |-> <<>>] : r \in {"error", "raise"}}

\* TICKTICK_PROJECT_LIMIT: unset, an integer, or no number
Limits == {None, <<"0">>, <<"1">>, <<"2">>, <<"-", "1">>, <<"x">>, <<>>}

DaysInputs == {0, 1, 7, MaxDays + 1}

\* the scopes are drawn in full for a process whose client is built; for a
\* call that has to build it first, one project with one task is drawn
Scoped(sc) ==
    (ticktick = "None" \/ ~token) =>
        (Len(sc.projects) <= 1 /\ \A k \in 1..Len(sc.projects) : Len(sc.projects[k].tasks) <= 1)

GetOverdueTasks(ctor, gp, sc) ==
    /\ op = "idle"
    /\ Drawn(ctor, gp)
    /\ Scoped(sc)
    /\ LET r == get_overdue_tasks(ticktick, token, ctor, gp, sc.one, sc.gpres, sc.projects,
                                  USER_TIMEZONE, py)
       IN  /\ ret' = r.ret
           /\ ticktick' = r.client
           /\ calls' = r.calls
    /\ op' = "get_overdue_tasks"
    /\ arg' = [client_before |-> ticktick, ctor |-> ctor, gp |-> gp, one |-> sc.one,
               gpres |-> sc.gpres, projects |-> sc.projects]
    /\ UNCHANGED <<envVars, loaded, USER_TIMEZONE, resolved, token>>

\* the limit matters to a query over all projects with a valid number of days
GetUpcomingTasks(ctor, gp, days, limit, sc) ==
    /\ op = "idle"
    /\ Drawn(ctor, gp)
    /\ Scoped(sc)
    /\ (sc.one \/ sc.gpres # "ok" \/ days \notin 1..MaxDays) => limit = None
    /\ days \notin 1..MaxDays => (sc.one /\ sc.projects[1].tasks = <<>>)
    /\ LET r == get_upcoming_tasks(ticktick, token, ctor, gp, days, sc.one, sc.gpres, limit,
                                   sc.projects, USER_TIMEZONE, py)
       IN  /\ ret' = r.ret
           /\ ticktick' = r.client
           /\ calls' = r.calls
    /\ op' = "get_upcoming_tasks"
    /\ arg' = [client_before |-> ticktick, ctor |-> ctor, gp |-> gp, one |-> sc.one,
               gpres |-> sc.gpres, projects |-> sc.projects, days |-> days, limit |-> limit]
    /\ UNCHANGED <<envVars, loaded, USER_TIMEZONE, resolved, token>>

\* a task of a search: task.get('status'), and its 'title' and 'content'
\* keys, each absent, null or a text
SearchTask(status, title, content) == [status |-> status, title |-> title, content |-> content]

\* the value of a key that holds a text: given (a text or None), or absent
Text(v) == [given |-> TRUE, v |-> v]

NoText == [given |-> FALSE, v |-> <<>>]

SearchChoices ==
    {SearchTask(Given(0), Text(<<"n", "O", "k">>), NoText),
     SearchTask(Given(0), Text(<<"n", "o">>), Text(<<"o", "k">>)),
     SearchTask(Given(0), Text(<<"n", "o">>), NoText),
     SearchTask(Given(2), Text(<<"n", "O", "k">>), Text(<<>>)),
     SearchTask(NotGiven, NoText, NoText),
     SearchTask(Given(0), Text(None), Text(<<"o", "k">>)),
     SearchTask(Given(0), Text(<<"n", "o">>), Text(None)),
     SearchTask(Given(2), Text(None), NoText)}

\* the tasks a project answers: up to MaxTasks, and one more matching task
\* than the report renders
SearchLists ==
    UNION {[1..n -> SearchChoices] : n \in 0..MaxTasks}
    \cup {[k \in 1..(ShownMatches + 1) |->
              SearchTask(Given(0), Text(<<"n", "O", "k">>), NoText)]}

DefaultQuery == <<"O", "K">>

Queries == {DefaultQuery, <<>>}

\* the tasks, the query and include_completed are drawn in full for a
\* search limited to one project by a process whose client is built
SearchDrawn(one, res, data, query, include_completed, tasks) ==
    /\ (tasks # <<>> \/ query # DefaultQuery \/ include_completed) =>
          (ticktick # "None" /\ token /\ res = "ok")
    /\ (one /\ tasks # <<>>) => data = <<>>
    /\ ~one => (Len(tasks) <= 1 /\ query = DefaultQuery /\ ~include_completed)

SearchTasks(ctor, gp, one, res, data, query, include_completed, tasks) ==
    /\ op = "idle"
    /\ Drawn(ctor, gp)
    /\ SearchDrawn(one, res, data, query, include_completed, tasks)
    /\ LET r == search_tasks(ticktick, token, ctor, gp, one, res, data, query,
                             include_completed, tasks)
       IN  /\ ret' = r.ret
           /\ ticktick' = r.client
           /\ calls' = r.calls
    /\ op' = "search_tasks"
    /\ arg' = [client_before |-> ticktick, ctor |-> ctor, gp |-> gp, res |-> res,
               one |-> one, data |-> data, query |-> query,
               include_completed |-> include_completed, tasks |-> tasks]
    /\ UNCHANGED <<envVars, loaded, USER_TIMEZONE, resolved, token>>

Next ==
    \/ \E b \in BOOLEAN \ {token} : SetToken(b)
    \/ /\ op = "idle"
       /\ \E sc \in QueryScopes, ctor \in CtorOutcomes, gp \in ApiOutcomes :
             GetOverdueTasks(ctor, gp, sc)
    \/ /\ op = "idle"
       /\ \E sc \in QueryScopes, ctor \in CtorOutcomes, gp \in ApiOutcomes,
             days \in DaysInputs, limit \in Limits : GetUpcomingTasks(ctor, gp, days, limit, sc)
    \/ \E ctor \in CtorOutcomes, gp \in ApiOutcomes, res \in ApiOutcomes,
          view_mode \in ViewModeInputs : CreateProject(ctor, gp, res, view_mode)
    \/ \E ctor \in CtorOutcomes, gp \in ApiOutcomes, res \in ApiOutcomes,
          status \in Statuses : GetTask(ctor, gp, res, status)
    \/ /\ op = "idle"
       /\ \E ctor \in CtorOutcomes, gp \in ApiOutcomes, res \in ApiOutcomes,
             one \in BOOLEAN, data \in ProjectData, query \in Queries,
             include_completed \in BOOLEAN, tasks \in SearchLists :
             SearchTasks(ctor, gp, one, res, data, query, include_completed, tasks)
    \/ \E ctor \in CtorOutcomes, gp \in ApiOutcomes, tasks \in Batches :
          CreateMultipleTasks(ctor, gp, tasks)
    \/ \E ctor \in CtorOutcomes, gp \in ApiOutcomes, updates \in Batches :
          UpdateTaskBatch(ctor, gp, updates)
    \/ \E ctor \in CtorOutcomes, gp \in ApiOutcomes, res \in ApiOutcomes :
          GetProjects(ctor, gp, res)
    \/ \E ctor \in CtorOutcomes, gp \in ApiOutcomes, res \in ApiOutcomes,
          priority \in Priorities, start_date \in ToolDates, due_date \in ToolDates :
          CreateTask(ctor, gp, res, priority, start_date, due_date)
    \/ \E ctor \in CtorOutcomes, gp \in ApiOutcomes, res \in ApiOutcomes,
          priority \in Priorities \cup {NotGiven}, start_date \in ToolDates,
          due_date \in ToolDates :
          UpdateTask(ctor, gp, res, priority, start_date, due_date)
    \/ Return

Spec == Init /\ [][Next]_vars

-----------------------------------------------------------------------------
(* Properties of normalization and validation (SpecNorm)                   *)

NormalizeOps == {"server.normalize", "tzutils.normalize"}

ValidateOps == {"server.validate", "tzutils.validate"}

EndsWith(s, x) == Len(s) >= Len(x) /\ SubSeq(s, Len(s) - Len(x) + 1, Len(s)) = x

\* an offset of `off` minutes written [+-]HH:MM
IsoOffset(off) ==
    LET a == IF off < 0 THEN -off ELSE off
    IN  <<IF off < 0 THEN "-" ELSE "+">> \o Fmt2(a \div 60) \o <<":">> \o Fmt2(a % 60)

\* the zone a normalize call works with
ResolvedTz ==
    IF op = "server.normalize" THEN USER_TIMEZONE
    ELSE tzutils_get_user_timezone(envTz, sysOffset, elapsed, zoneinfoOK).tz

\* C1: a string that already ends with an explicit offset (+HH:MM, -HH:MM,
\* +HHMM, -HHMM) or with Z is returned by normalize_datetime_for_user
\* exactly as it was given, in both modules.
C1_OffsetInputUnchanged ==
    (op \in NormalizeOps /\ arg \in OffsetQualified) => ret = arg

C1_Witness ==
    /\ op = "server.normalize"
    /\ arg \in OffsetQualified
    /\ EndsWith(arg, <<"+", "0", "7", "0", "0">>)
    /\ ret = arg
    /\ USER_TIMEZONE = Zone("America/New_York")

\* C2: a date-only string comes back as that date at T00:00:00 followed by
\* the resolved zone's current offset written [+-]HH:MM.
C2_DateOnlyMidnight ==
    (op \in NormalizeOps /\ arg \in DateOnly)
        => ret = arg \o Midnight \o IsoOffset(utcoffset(ResolvedTz, nowMonth))

\* C3: a date-time without an offset comes back unchanged with the resolved
\* zone's current offset, [+-]HH:MM, appended once.
C3_LocalOffsetAppended ==
    (op \in NormalizeOps /\ arg \in LocalDateTime)
        => ret = arg \o IsoOffset(utcoffset(ResolvedTz, nowMonth))

\* C4: with TICKTICK_USER_TIMEZONE=Asia/Bangkok, server's
\* normalize_datetime_for_user returns a local date-time with +0700 appended
\* (the assertion of tests/test_normalize.py).
C4_BangkokTest ==
    (op = "server.normalize" /\ envTz = "Asia/Bangkok" /\ arg \in LocalDateTime)
        => ret = arg \o <<"+", "0", "7", "0", "0">>

\* a trailing [+-]HH:MM, [+-]HHMM or Z
CarriesOffset(s) ==
    \/ EndsWith(s, <<"Z">>)
    \/ \E n \in {5, 6} :
          /\ Len(s) >= n
          /\ s[Len(s) - n + 1] \in {"+", "-"}
          /\ LET body == SubSeq(s, Len(s) - n + 2, Len(s))
             IN  IF n = 5 THEN AllDigits(body)
                 ELSE /\ body[3] = ":"
                      /\ AllDigits(SubSeq(body, 1, 2) \o SubSeq(body, 4, 5))

\* C5: every non-empty result of normalize_datetime_for_user ends with an
\* explicit offset or Z.
C5_ResultCarriesOffset ==
    (op \in NormalizeOps /\ ret # None /\ ret # <<>>) => CarriesOffset(ret)

\* C6: validate_datetime_string returns None for date-only strings, local
\* date-times, offset-qualified strings (with or without the colon, or Z)
\* and for what normalize_datetime_for_user returns for them; a string that
\* cannot be parsed gets a message naming the field.
C6_ValidateAccepts ==
    /\ (op \in ValidateOps /\ arg[1] \in DateOnly \cup LocalDateTime \cup OffsetQualified)
          => ret = None
    /\ (op \in NormalizeOps /\ arg \in DateOnly \cup LocalDateTime \cup OffsetQualified)
          => validate_datetime_string(ret, "due_date", py) = None
    /\ (op \in ValidateOps /\ arg[1] = DateStr(MaxYear, 13, 40))
          => (ret # None /\ \E i \in 1..Len(ret) : ret[i] = arg[2])

-----------------------------------------------------------------------------
(* Properties of timezone resolution (SpecTz)                              *)

GetTzOps == {"server.get_user_timezone", "tzutils.get_user_timezone"}

ResolveOps == GetTzOps \cup {"server.import"}

IsUTC(tz) == tz = Zone("UTC") \/ tz = FixedTz(0)

EnvAbsent == envTz = Unset \/ envTz = ""

\* the variable names a zone of the tz database
EnvValid == ~EnvAbsent /\ envTz \in ZoneDB

\* what the system offers to the probes of the module that was called
AProbeYields ==
    IF op = "tzutils.get_user_timezone"
    THEN detect_system_timezone(sysOffset, elapsed) # Unset
    ELSE \/ \E name \in {probes.p1, probes.p2, probes.p3} : name \in ZoneDB /\ zoneinfoOK
         \/ probes.p4 \in DOMAIN tz_mapping /\ zoneinfoOK

ProbeVias == {"probe1", "probe2", "probe3", "probe4", "detect"}

\* C7: get_user_timezone never raises: every failure on the way is caught,
\* a timezone object is returned, and with the configuration absent and
\* every system probe failing that object is UTC.
C7_NeverRaises ==
    /\ op \in GetTzOps => (ret.k = "ret" /\ ret.tz.kind \in {"zone", "fixed"})
    /\ (op = "server.import" /\ zoneinfoOK) => (ret.k = "ret" /\ loaded)
    /\ (op \in ResolveOps /\ ret.k = "ret" /\ EnvAbsent /\ ~AProbeYields) => IsUTC(ret.tz)

C7_Witness ==
    /\ op = "server.get_user_timezone"
    /\ envTz = "Mars/Phobos"
    /\ probes.p1 = ProbeOther
    /\ probes.p2 = "Europe/Berlin"
    /\ ret = Returns(Zone("UTC"), "fallback")

\* C8: the zone comes from the configuration when it names a valid zone,
\* otherwise from system detection when a probe yields a zone, and UTC is
\* the fallback only when neither yielded one.
C8_PriorityChain ==
    (op \in ResolveOps /\ ret.k = "ret") =>
        /\ ret.via = "env" <=> EnvValid
        /\ ret.via \in ProbeVias <=> (~EnvValid /\ AProbeYields)
        /\ ret.via = "fallback" <=> (~EnvValid /\ ~AProbeYields)

SameZone(a, b) == a = b \/ (IsUTC(a) /\ IsUTC(b))

\* the result of the called module when the variable is not set
WithoutEnv ==
    IF op = "tzutils.get_user_timezone"
    THEN tzutils_get_user_timezone(Unset, sysOffset, elapsed, zoneinfoOK)
    ELSE server_get_user_timezone(Unset, probes, zoneinfoOK)

\* C9: an invalid zone name in TICKTICK_USER_TIMEZONE does not raise; it is
\* skipped, and the result is the one system detection gives without it.
C9_InvalidEnvFallsThrough ==
    (op \in ResolveOps /\ ~EnvAbsent /\ envTz \notin ZoneDB /\ (op = "server.import" => zoneinfoOK))
        => (ret.k = "ret" /\ SameZone(ret.tz, WithoutEnv.tz))

-----------------------------------------------------------------------------
(* Properties of the tool handlers (Spec)                                  *)

\* C10: create_task and update_task answer a priority outside {0, 1, 3, 5}
\* with 'Invalid priority' and make no remote call, whether or not an
\* earlier tool call had initialized the client.
C10_InvalidPriorityNoCall ==
    (op \in {"create_task", "update_task"} /\ arg.priority.given
                                           /\ arg.priority.v \notin {0, 1, 3, 5})
        => (ret = InvalidPriority /\ calls = <<>>)

BatchOps == {"create_multiple_tasks", "update_task_batch"}

\* C11: a batch of more than 50 items is answered with the 'Maximum 50 ...
\* per batch' message and no call of the remote client is made during the
\* invocation.
C11_OversizedBatchNoCall ==
    (op \in BatchOps /\ Len(arg.items) > 50)
        => (ret \in {TooManyTasks, TooManyUpdates} /\ calls = <<>>)

ToolOps == {"get_projects", "get_task", "create_task", "update_task",
            "create_multiple_tasks", "update_task_batch", "search_tasks",
            "create_project"}

\* C12: no tool handler lets an exception escape: whatever the arguments
\* and whatever the remote client does, the invocation returns a string.
C12_NoExceptionEscapes ==
    op \in ToolOps => ret[1] # "<raised>"

HasCall(method, i) ==
    \E k \in 1..Len(calls) : calls[k].method = method /\ calls[k].item = i

Malformed(d) == d = DateStr(MaxYear, 13, 40)

\* the remote method a batch handler calls for its items
ItemMethod == IF op = "create_multiple_tasks" THEN "create_task" ELSE "update_task"

\* C13: a malformed start_date or due_date given to create_task, update_task
\* or an item of a batch, and a view_mode outside {list, kanban, timeline}
\* given to create_project, is reported as an error and the client's
\* create_task / update_task / create_project is not called for it.
C13_ValidationBeforeCall ==
    /\ (/\ op \in {"create_task", "update_task"}
        /\ Malformed(arg.start_date) \/ Malformed(arg.due_date)
        /\ ret # FailedToInitialize /\ ret # InvalidPriority)
          => (ret \in {InvalidFormat(f) : f \in FieldNames} /\ ~HasCall(op, 0))
    /\ op \in BatchOps =>
          \A i \in 1..Len(arg.items) :
              (Malformed(arg.items[i].start_date) \/ Malformed(arg.items[i].due_date))
                  => ~HasCall(ItemMethod, i)
    /\ (op = "create_project" /\ arg.view_mode \notin {"list", "kanban", "timeline"}
                              /\ ret # FailedToInitialize)
          => (ret = InvalidViewMode /\ ~HasCall("create_project", 0))

\* an item the handler has no reason to reject
ValidItem(it) ==
    /\ it.dict
    /\ IF op = "create_multiple_tasks" THEN it.title ELSE it.task_id
    /\ it.project_id
    /\ it.priority.given => it.priority.v \in {0, 1, 3, 5}
    /\ ~Malformed(it.start_date) /\ ~Malformed(it.due_date)

\* the batch got past the client and size checks
BatchProcessed ==
    /\ op \in BatchOps
    /\ Len(arg.items) \in 1..50
    /\ ret # FailedToInitialize

\* C14: in the batch handlers the failure of an item (rejected locally,
\* {error: ...} from the client, or an exception of the client) never stops
\* the items after it: every valid item has its remote call issued, and
\* the calls are issued in input order.
C14_PartialFailure ==
    BatchProcessed =>
        /\ \A i \in 1..Len(arg.items) :
              ValidItem(arg.items[i]) => HasCall(ItemMethod, i)
        /\ \A j, k \in 1..Len(calls) :
              (j < k /\ calls[j].method = ItemMethod /\ calls[k].method = ItemMethod)
                  => calls[j].item < calls[k].item

C14_Witness ==
    /\ op = "update_task_batch"
    /\ Len(arg.items) = 2
    /\ arg.items[1].res = "raise" /\ ValidItem(arg.items[1])
    /\ ValidItem(arg.items[2])
    /\ HasCall("update_task", 1) /\ HasCall("update_task", 2)

\* C15: while no credential is available, every tool call answers with the
\* same fixed message and makes no remote call, in every sequence of tool
\* calls: the client stays uninitialized until the credential appears.
C15_NoCredentialShortCircuits ==
    (op \in ToolOps /\ arg.client_before = "None" /\ ~token)
        => (ret = FailedToInitialize /\ calls = <<>> /\ ticktick = "None")

C15_Witness ==
    /\ op = "search_tasks"
    /\ arg.client_before = "None" /\ ~token
    /\ arg.ctor = "ok" /\ arg.gp = "ok"
    /\ ret = FailedToInitialize

\* the positions in calls of the calls made by the handler itself, after
\* the connectivity test of initialize_client
BodyCallIndices ==
    {k \in 1..Len(calls) : ~(k = 1 /\ arg.client_before = "None")}

InRet(x) == \E i \in 1..Len(ret) : ret[i] = x

\* every item of the batch is a dictionary with its required keys
ItemsWellFormed ==
    \A i \in 1..Len(arg.items) :
        arg.items[i].dict /\ arg.items[i].title /\ arg.items[i].project_id

\* C16: whenever a client operation invoked by a tool answers {error: e},
\* e appears in the string the tool returns and nothing is raised; this
\* includes the tools that fetch several projects in one request.
C16_ErrorPropagated ==
    (op \in ToolOps /\ (op \in BatchOps => ItemsWellFormed)) =>
        \A k \in BodyCallIndices :
            calls[k].res = "error" => (ret[1] # "<raised>" /\ InRet("error field"))

\* C17: format_task renders the status line as 'Completed' exactly when the
\* task's status equals 2, and as 'Active' for every other status,
\* including a missing one.
C17_StatusLine ==
    (op = "get_task" /\ arg.res = "ok" /\ ret # FailedToInitialize) =>
        /\ ret[1] = "Status"
        /\ ret[2] = "Completed" <=> (arg.status.given /\ arg.status.v = 2)
        /\ ret[2] = "Active" <=> ~(arg.status.given /\ arg.status.v = 2)

C17_Witness ==
    /\ op = "get_task"
    /\ arg.res = "ok"
    /\ arg.status = Given(2)
    /\ ret = <<"Status", "Completed">>

-----------------------------------------------------------------------------
(* Further properties of normalization (SpecNorm) and of timezone          *)
(* resolution (SpecTz)                                                     *)

\* C18: the offset stamped on an input without offset is the resolved
\* zone's offset at call time, whatever the date of the input, and the
\* date and time digits of the input are kept.
C18_CurrentOffsetStamped ==
    (op \in NormalizeOps /\ arg \in DateOnly \cup LocalDateTime) =>
        /\ EndsWith(ret, IsoOffset(utcoffset(ResolvedTz, nowMonth)))
        /\ Len(ret) >= Len(arg) /\ SubSeq(ret, 1, Len(arg)) = arg

\* the first probe, in order, that finds a zone of the tz database
FirstYield ==
    IF probes.p1 \in ZoneDB THEN Returns(Zone(probes.p1), "probe1")
    ELSE IF probes.p2 \in ZoneDB THEN Returns(Zone(probes.p2), "probe2")
    ELSE IF probes.p3 \in ZoneDB THEN Returns(Zone(probes.p3), "probe3")
    ELSE IF probes.p4 \in DOMAIN tz_mapping
      THEN Returns(Zone(tz_mapping[probes.p4]), "probe4")
    ELSE Returns(Zone("UTC"), "fallback")

\* C19: every system probe is fallible on its own: when a probe fails for
\* any reason the next one is tried, so the result is the zone of the first
\* probe that finds one and UTC only after every probe was tried.
C19_ProbesIndependent ==
    (op \in {"server.get_user_timezone", "server.import"} /\ ret.k = "ret" /\ ~EnvValid)
        => ret = FirstYield

\* C20: with no timezone configured and the system at +7 (+8, -5, +5.5)
\* hours, the offset probe yields Asia/Bangkok (Asia/Shanghai,
\* America/New_York, Asia/Kolkata), whatever time elapses between its two
\* clock reads.
C20_OffsetProbe ==
    (op = "tzutils.detect_system_timezone" /\ EnvAbsent) =>
        /\ sysOffset = 420 => ret.via = "Asia/Bangkok"
        /\ sysOffset = 480 => ret.via = "Asia/Shanghai"
        /\ sysOffset = -300 => ret.via = "America/New_York"
        /\ sysOffset = 330 => ret.via = "Asia/Kolkata"


\* the gaps that may separate the two clock reads of one resolution
ClockGaps == 0..MaxGap

\* C21: resolution is deterministic: under the same configuration and the
\* same system state (zone settings, UTC offset) every run returns the
\* same timezone, whatever the instant at which it reads the clock.
C21_Deterministic ==
    /\ op = "tzutils.get_user_timezone" =>
          \A gap \in ClockGaps :
              SameZone(ret.tz,
                  tzutils_get_user_timezone(envTz, sysOffset, gap, zoneinfoOK).tz)
    /\ op = "server.get_user_timezone" =>
          ret = server_get_user_timezone(envTz, probes, zoneinfoOK)


\* C22: the resolved user timezone is computed once and only read
\* afterwards: every normalization of the process works with the zone that
\* was resolved first, even when TICKTICK_USER_TIMEZONE has changed since.
C22_ResolvedOnce ==
    /\ (op = "server.normalize" /\ arg \in DateOnly \cup LocalDateTime) =>
          ret = server_normalize(arg, USER_TIMEZONE, nowMonth, py)
    /\ (op = "tzutils.normalize" /\ arg \in DateOnly \cup LocalDateTime) =>
          ret = tzutils_normalize(arg, resolved, nowMonth)


\* the number of items of the batch whose remote call returned a task
Succeeded ==
    Cardinality({k \in 1..Len(calls) : calls[k].method = ItemMethod /\ calls[k].res = "ok"})

\* the failures whose details the returned summary gives
FailuresDetailed == Cardinality({i \in 1..Len(ret) : ret[i] = "failed"})

\* the number of entries a truncated list shows (the one of the successes)
FewShown == ShownSuccesses

\* C23: a batch past the size check returns one summary: the count of
\* successes and the count of failures out of the number of items, then
\* the details of the first few failures only (a truncated list).
C23_Summary ==
    (BatchProcessed /\ ret[1] # "<raised>") =>
        /\ Len(ret) >= 13
        /\ SubSeq(ret, 2, 13) =
              <<"Successful">> \o Fmt2(Succeeded) \o <<"/">> \o Fmt2(Len(arg.items))
              \o <<"Failed">> \o Fmt2(Len(arg.items) - Succeeded) \o <<"/">>
              \o Fmt2(Len(arg.items))
        /\ FailuresDetailed <= FewShown


\* a get_upcoming_tasks request over all projects
UpcomingAll == op = "get_upcoming_tasks" /\ ~arg.one

\* the positions, in the list of get_projects, of the projects fetched
Fetched ==
    LET fetches == SelectSeq(calls, LAMBDA c : c.method = "get_project_with_data")
    IN  [i \in 1..Len(fetches) |-> fetches[i].item]

\* the positions of the non-closed projects, in the order of get_projects
OpenProjects ==
    SelectSeq([k \in 1..Len(arg.projects) |-> k], LAMBDA k : ~arg.projects[k].closed)

\* TICKTICK_PROJECT_LIMIT holds an integer, or is unset
CapIsNumber ==
    \/ arg.limit = None
    \/ arg.limit # <<>> /\ AllDigits(arg.limit)
    \/ Len(arg.limit) >= 2 /\ arg.limit[1] = "-" /\ AllDigits(Tail(arg.limit))

\* the cap on the number of projects: the configured integer, no project
\* at all for a negative one
ConfiguredCap ==
    IF arg.limit = None THEN 20
    ELSE IF arg.limit # <<>> /\ AllDigits(arg.limit) THEN Num(arg.limit)
    ELSE 0

Smaller(a, b) == IF a < b THEN a ELSE b

\* the request ran to its report
UpcomingReported == UpcomingAll /\ ret[1] = "Found"

\* successful_projects and failed_projects, as the report states them
ProcessedStated == Num(SubSeq(ret, 5, 6))

SkippedStated == IF Len(ret) >= 9 /\ ret[7] = "skipped" THEN Num(SubSeq(ret, 8, 9)) ELSE 0

\* C24: a get_upcoming_tasks request over all projects makes at most
\* TICKTICK_PROJECT_LIMIT (default 20) get_project_with_data calls, for the
\* first non-closed projects in the order of get_projects and for no closed
\* project, and successful_projects + failed_projects is the number fetched.
C24_ProjectCap ==
    UpcomingAll =>
        /\ CapIsNumber => Len(Fetched) <= ConfiguredCap
        /\ \A i \in 1..Len(Fetched) : ~arg.projects[Fetched[i]].closed
        /\ UpcomingReported =>
              /\ Fetched = SubSeq(OpenProjects, 1, Smaller(ConfiguredCap, Len(OpenProjects)))
              /\ ProcessedStated + SkippedStated = Len(Fetched)



\* the empty string and None
Absent == {<<>>, None}

\* C25: an empty or absent input is returned unchanged by
\* normalize_datetime_for_user, which does not resolve or touch the user
\* timezone for it, and validate_datetime_string returns None for it.
C25_EmptyUnchanged ==
    [][/\ (op' \in NormalizeOps /\ arg' \in Absent) =>
              (ret' = arg' /\ resolved' = resolved /\ USER_TIMEZONE' = USER_TIMEZONE)
       /\ (op' \in ValidateOps /\ arg'[1] \in Absent) => ret' = None]_vars

C25_Witness ==
    /\ op = "tzutils.normalize"
    /\ arg = <<>>
    /\ ret = <<>>
    /\ resolved = NoTz


\* normalize_datetime_for_user of the called module applied to its own result
NormalizedAgain ==
    IF op = "server.normalize" THEN server_normalize(ret, USER_TIMEZONE, nowMonth, py)
    ELSE tzutils_normalize(ret, ResolvedTz, nowMonth)

\* C26: normalize_datetime_for_user is idempotent for a fixed resolved
\* timezone: normalizing its result gives the result again, so a string
\* that was stamped once receives no second offset.
C26_Idempotent ==
    op \in NormalizeOps => NormalizedAgain = ret

C26_Witness ==
    /\ op = "tzutils.normalize"
    /\ arg = DateStr(MaxYear, 6, 11) \o TimeStr("T", 15, 0) \o <<"x">>
    /\ ret = arg \o <<"+", "0", "7", ":", "0", "0">>
    /\ NormalizedAgain = ret


\* the outcome of each iteration of the batch that was processed
LoopEntries ==
    IF op = "create_multiple_tasks" THEN create_entries(arg.items)
    ELSE update_entries(arg.items, py)

\* the success and failure lists after the first k iterations
RecordedAfter(k) == batch_loop(LoopEntries, 1, k, NoneRecorded)

Elements(seq) == {seq[i] : i \in 1..Len(seq)}

\* every one of the first k items is in exactly one of the two lists, once
RecordedOnce(acc, k) ==
    /\ Len(acc.successful) + Len(acc.failed) = k
    /\ Elements(acc.successful) \cup Elements(acc.failed) = 1..k
    /\ Elements(acc.successful) \cap Elements(acc.failed) = {}

CallsFor(i) == {n \in 1..Len(calls) : calls[n].method = ItemMethod /\ calls[n].item = i}

\* the counts of the summary, when one was returned
CountsStated == Num(SubSeq(ret, 3, 4)) + Num(SubSeq(ret, 9, 10))

\* C27: in both batch handlers, after k iterations each of the first k
\* items is recorded exactly once, as a success or as a failure (so the
\* two counts add up to N at the end); the client is called at most once
\* per item, and an item recorded as a success is one whose call returned
\* a task without an 'error' field.
C27_RecordedOnce ==
    BatchProcessed =>
        /\ \A k \in 0..Len(arg.items) : RecordedOnce(RecordedAfter(k), k)
        /\ ret[1] # "<raised>" => CountsStated = Len(arg.items)
        /\ \A i \in 1..Len(arg.items) : Cardinality(CallsFor(i)) <= 1
        /\ \A i \in Elements(RecordedAfter(Len(arg.items)).successful) :
              \E n \in CallsFor(i) : calls[n].res = "ok"

C27_Witness ==
    /\ op = "create_multiple_tasks"
    /\ BatchProcessed
    /\ Len(arg.items) = 2
    /\ arg.items[1].res = "error" /\ ValidItem(arg.items[1])
    /\ arg.items[2].res = "ok" /\ ValidItem(arg.items[2])
    /\ RecordedAfter(2) = [successful |-> <<2>>, failed |-> <<1>>]
    /\ CountsStated = 2


\* the tool handlers, the date queries included
AllToolOps == ToolOps \cup {"get_overdue_tasks", "get_upcoming_tasks"}

\* the call ran initialize_client and it returned False
InitFailed == arg.client_before = "None" /\ ret = FailedToInitialize

\* C28: when initialize_client returns False, for a missing token, a failed
\* connectivity check or an exception, the module's client is still unset,
\* so that the next tool call runs the initialization again and no data
\* operation is issued before an initialization that returned True.
C28_FailedInitLeavesUnset ==
    (op \in AllToolOps /\ InitFailed) => ticktick = "None"


\* a date query that ran to its report
DateQuery == op \in {"get_overdue_tasks", "get_upcoming_tasks"}

DateReported == DateQuery /\ (ret = NoOverdue \/ ret[1] = "Found")

\* all_tasks: the tasks of the projects whose data the request received, in
\* the order of the calls
RECURSIVE TasksOf(_, _)
TasksOf(fetches, i) ==
    IF i > Len(fetches) THEN <<>>
    ELSE arg.projects[fetches[i].item].tasks \o TasksOf(fetches, i + 1)

Scanned ==
    TasksOf(SelectSeq(calls, LAMBDA c : c.method = "get_project_with_data" /\ c.res = "ok"), 1)

\* the positions in all_tasks of the tasks of the report, in its order
ReportedAt == SelectSeq([i \in 1..Len(ret) |-> i], LAMBDA i : ret[i] = "task")

Reported == [j \in 1..Len(ReportedAt) |-> Num(SubSeq(ret, ReportedAt[j] + 1, ReportedAt[j] + 2))]

\* the number of tasks the first line of the report states
FoundStated == IF ret = NoOverdue THEN 0 ELSE Num(SubSeq(ret, 2, 3))

\* the offset of the user's zone at the clock of the model, in minutes
UserOffset == utcoffset(USER_TIMEZONE, nowMonth)

\* whether the interpreter reads the due date: the 13th month never, the
\* offset +0000 without a colon from Python 3.11 on
Readable(due) ==
    /\ due \notin {None, DateStr(MaxYear, 13, 40)}
    /\ due \in {PastApi, NextWeekApi} => py = "py311"

\* the due instant of a readable due date, in minutes after the clock of the
\* model (noon UTC of the 15th)
MinutesAfterNow(due) ==
    IF due = PastZ THEN 0 - (5 * 1440 + 180)
    ELSE IF due = PastApi THEN 0 - 1440
    ELSE IF due = PastByOffset THEN 0 - 60
    ELSE IF due = LocalAfternoon THEN 180 - UserOffset
    ELSE IF due = RightNow THEN 0
    ELSE IF due = NextNoon THEN 1440
    ELSE IF due = NextWeekApi THEN 5 * 1440
    ELSE 44 * 1440

\* the task at position k of all_tasks is not completed and has a due date
\* the interpreter reads
Candidate(k) ==
    /\ ~(Scanned[k].status.given /\ Scanned[k].status.v = 2)
    /\ Readable(Scanned[k].due)

\* what the query selects: overdue, or due within the days asked for
Selected(k) ==
    /\ Candidate(k)
    /\ IF op = "get_overdue_tasks" THEN MinutesAfterNow(Scanned[k].due) < 0
       ELSE /\ MinutesAfterNow(Scanned[k].due) >= 0
            /\ MinutesAfterNow(Scanned[k].due) <= arg.days * 1440

\* the request was ended by something else than a due date: no client, a
\* failed remote call, or an argument or setting out of range
EndedEarly ==
    \/ ret = FailedToInitialize
    \/ \E i \in 1..Len(calls) : calls[i].res = "raise"
    \/ \E i \in 1..Len(calls) :
          calls[i].res = "error" /\ (arg.one \/ calls[i].method = "get_projects")
    \/ op = "get_upcoming_tasks" /\ (arg.days \notin 1..MaxDays \/ ~CapIsNumber)

\* C29: get_overdue_tasks reports exactly the tasks of the scanned projects
\* that are not completed, have a parseable dueDate and are due strictly
\* before now; get_upcoming_tasks exactly those with now <= due <= now +
\* days; both order them by due instant ascending, and a missing or
\* unparseable dueDate is skipped without ending the request.
C29_DateQueries ==
    DateQuery =>
        /\ ~EndedEarly => DateReported
        /\ DateReported =>
              /\ FoundStated = Len(Reported)
              /\ \A j \in 1..Len(Reported) : Reported[j] \in 1..Len(Scanned)
              /\ \A i, j \in 1..Len(Reported) : i < j => Reported[i] # Reported[j]
              /\ {Reported[j] : j \in 1..Len(Reported)} = {k \in 1..Len(Scanned) : Selected(k)}
              /\ \A j \in 1..(Len(Reported) - 1) :
                    MinutesAfterNow(Scanned[Reported[j]].due)
                        <= MinutesAfterNow(Scanned[Reported[j + 1]].due)

\* an overdue report that puts the second task first and a task due right
\* now aside; an upcoming report is covered by the same formula
C29_Witness ==
    /\ op = "get_overdue_tasks"
    /\ DateReported
    /\ Len(Scanned) = 2
    /\ Reported = <<2, 1>>


\* the search received the tasks it works on
SearchFetched ==
    /\ op = "search_tasks"
    /\ ret # FailedToInitialize
    /\ arg.res = "ok"
    /\ \A i \in 1..Len(calls) : calls[i].res # "raise"

\* all_tasks of the search
Searched == IF arg.one THEN arg.tasks ELSE extend_tasks(arg.data, arg.tasks, 1)

\* the text of a field; an absent or null one holds nothing to find
TextOf(field) == IF field.given /\ field.v # None THEN field.v ELSE <<>>

Completed(task) == task.status.given /\ task.status.v = 2

\* the task is to be found: not left out as completed, and the lower-cased
\* query is within its lower-cased title or content
ToBeFound(task) ==
    /\ arg.include_completed \/ ~Completed(task)
    /\ \/ is_substring(lower(arg.query), lower(TextOf(task.title)))
       \/ is_substring(lower(arg.query), lower(TextOf(task.content)))

Matches == SelectSeq([k \in 1..Len(Searched) |-> k], LAMBDA k : ToBeFound(Searched[k]))

\* the positions in all_tasks of the rendered matches, in order
Rendered ==
    LET at == SelectSeq([i \in 1..Len(ret) |-> i], LAMBDA i : ret[i] = "task")
    IN  [j \in 1..Len(at) |-> Num(SubSeq(ret, at[j] + 1, at[j] + 2))]

\* the count of the first line, and the remaining count of the last
MatchesStated == IF ret = NoTasksFound THEN 0 ELSE Num(SubSeq(ret, 2, 3))

MoreStated ==
    IF Len(ret) >= 3 /\ ret[Len(ret) - 2] = "more" THEN Num(SubSeq(ret, Len(ret) - 1, Len(ret)))
    ELSE 0

\* C30: search_tasks returns a completed task only with include_completed;
\* a task matches exactly when the lower-cased query is within its
\* lower-cased title or content; the count is the number of matches, the
\* first 10 are rendered and the remaining count is stated; an absent or
\* null title or content does not match and does not end the search with an
\* error.
C30_Search ==
    SearchFetched =>
        /\ ret[1] # "Error"
        /\ MatchesStated = Len(Matches)
        /\ Rendered = SubSeq(Matches, 1, Smaller(ShownMatches, Len(Matches)))
        /\ MoreStated = Len(Matches) - Len(Rendered)
        /\ \A j \in 1..Len(Rendered) :
              Completed(Searched[Rendered[j]]) => arg.include_completed

\* the tasks of the search hold no null title or content
NoNullText ==
    \A k \in 1..Len(Searched) :
        /\ Searched[k].title.given => Searched[k].title.v # None
        /\ Searched[k].content.given => Searched[k].content.v # None

\* the same statement for tasks whose title and content are texts or absent
C30_SearchOfTexts == (SearchFetched /\ NoNullText) => C30_Search

=============================================================================
